---- MODULE Spec2Model ----
(***************************************************************************)
(* WinHKMon: the rate engine (DeltaCalculator) and the state store         *)
(* (StateManager), modelled from src/src/WinHKMonLib.                      *)
(*                                                                         *)
(* Representation choices                                                  *)
(*  - uint64_t is an unsigned integer of WordBits bits (arithmetic modulo  *)
(*    2^WordBits); double is a binary float with MantissaBits significant  *)
(*    bits.  Both widths are scaled down so that the values fit the model  *)
(*    checker's integers; every value that plays a part (0, 1, the middle  *)
(*    of the range, the maximum, the first value past the maximum) is      *)
(*    derived from the widths.                                             *)
(*  - a double is held as an exact fraction [num, den]; the conversion     *)
(*    uint64_t -> double rounds to MantissaBits bits (ToDouble), the       *)
(*    quotient of two doubles is kept exact.                               *)
(*  - a std::string is a sequence of one-character strings; the state file *)
(*    is one such sequence, split into lines as std::getline splits it.    *)
(***************************************************************************)
EXTENDS Integers, Sequences, FiniteSets, TLC

\* ------------------------------------------------------------------ bounds
WordBits == 8
MantissaBits == 6
MaxDataLines == 2
NumberOfProcessors == 2
MaxQueries == 3
MaxIterations == 2
MaxCollects == 2
MaxTempCalls == 3
MaxAdapters == 3
MaxSharedCalls == 2

U64 == 2 ^ WordBits
MaxU == U64 - 1
HalfMax == MaxU \div 2

\* ------------------------------------------------------- doubles as fractions
Rat(n, d) == [num |-> n, den |-> d]
RatZero == Rat(0, 1)
RatIsZero(r) == r.num = 0
RatLeqZero(r) == r.num <= 0
RatIsNegative(r) == (r.num < 0 /\ r.den > 0) \/ (r.num > 0 /\ r.den < 0)
RatEq(a, b) == a.num * b.den = b.num * a.den

RECURSIVE BitLength(_)
BitLength(n) == IF n = 0 THEN 0 ELSE 1 + BitLength(n \div 2)

\* static_cast<double>(uint64_t): round to nearest, ties to even, keeping
\* MantissaBits significant bits.
ToDouble(n) ==
    IF BitLength(n) <= MantissaBits THEN n
    ELSE LET shift == BitLength(n) - MantissaBits
             unit  == 2 ^ shift
             q     == n \div unit
             r     == n % unit
             half  == unit \div 2
             up    == r > half \/ (r = half /\ q % 2 = 1)
         IN  (IF up THEN q + 1 ELSE q) * unit

\* ------------------------------------------------------------ DeltaCalculator
calculateRate_NoRolloverGuard(current, previous, elapsedSeconds) ==
    IF RatLeqZero(elapsedSeconds) THEN RatZero
    ELSE LET delta == (current - previous) % U64
         IN  Rat(ToDouble(delta) * elapsedSeconds.den, elapsedSeconds.num)

calculateRate_NarrowDelta(current, previous, elapsedSeconds) ==
    IF RatLeqZero(elapsedSeconds) THEN RatZero
    ELSE IF current < previous THEN RatZero
    ELSE LET delta == (current - previous) % (2 ^ (WordBits \div 2))
         IN  Rat(ToDouble(delta) * elapsedSeconds.den, elapsedSeconds.num)

calculateRate(current, previous, elapsedSeconds) ==
    IF RatLeqZero(elapsedSeconds) THEN RatZero
    ELSE IF current < previous THEN RatZero
    ELSE LET delta == (current - previous) % U64
         IN  Rat(ToDouble(delta) * elapsedSeconds.den, elapsedSeconds.num)

calculateElapsedSeconds_NoRollbackGuard(currentTimestamp, previousTimestamp, frequency) ==
    IF frequency = 0 THEN RatZero
    ELSE LET elapsedTicks == (currentTimestamp - previousTimestamp) % U64
         IN  Rat(ToDouble(elapsedTicks), ToDouble(frequency))

calculateElapsedSeconds(currentTimestamp, previousTimestamp, frequency) ==
    IF currentTimestamp < previousTimestamp THEN RatZero
    ELSE IF frequency = 0 THEN RatZero
    ELSE LET elapsedTicks == (currentTimestamp - previousTimestamp) % U64
         IN  Rat(ToDouble(elapsedTicks), ToDouble(frequency))

\* Inputs of the rate engine.
U64Values == {0, 1, 5, 10, HalfMax, MaxU - 1, MaxU}
ElapsedValues == {Rat(0 - 1, 1), Rat(0, 1), Rat(1, 2), Rat(1, 1), Rat(3, 2), Rat(2, 1)}
FrequencyValues == {0, 1, 10, MaxU}

\* ------------------------------------------------------------------ strings
Min(a, b) == IF a < b THEN a ELSE b

\* std::string::substr(pos, count) for pos <= size(); positions count from 0.
Substr(str, pos, count) == SubSeq(str, pos + 1, Min(pos + count, Len(str)))
\* std::string::substr(pos) for pos <= size().
SubstrFrom(str, pos) == SubSeq(str, pos + 1, Len(str))

Newline == "\n"
Tab == "\t"
CarriageReturn == "\r"
Quote == "\""
Space == " "
Underscore == "_"

DigitChars == <<"0", "1", "2", "3", "4", "5", "6", "7", "8", "9">>
IsDigit(c) == \E i \in 1..Len(DigitChars) : DigitChars[i] = c
DigitValue(c) == (CHOOSE i \in 1..Len(DigitChars) : DigitChars[i] = c) - 1
IsSpace(c) == c \in {Space, Tab, Newline, CarriageReturn}

\* operator<<(std::ostream&, uint64_t): the decimal digits, no sign, no padding.
RECURSIVE ToDecimal(_)
ToDecimal(n) ==
    IF n < 10 THEN <<DigitChars[n + 1]>>
    ELSE ToDecimal(n \div 10) \o <<DigitChars[(n % 10) + 1]>>

\* Position (from 0) of the last occurrence of c in str, -1 for npos.
RECURSIVE RFindFrom(_, _, _)
RFindFrom(str, c, i) ==
    IF i = 0 THEN 0 - 1
    ELSE IF str[i] = c THEN i - 1
    ELSE RFindFrom(str, c, i - 1)
RFind(str, c) == RFindFrom(str, c, Len(str))

\* Number of leading characters of str that satisfy/do not satisfy isspace.
RECURSIVE SpaceRun(_, _)
SpaceRun(str, i) ==
    IF i > Len(str) \/ ~IsSpace(str[i]) THEN i - 1 ELSE SpaceRun(str, i + 1)
RECURSIVE TokenRun(_, _)
TokenRun(str, i) ==
    IF i > Len(str) \/ IsSpace(str[i]) THEN i - 1 ELSE TokenRun(str, i + 1)
RECURSIVE DigitRun(_, _)
DigitRun(str, i) ==
    IF i > Len(str) \/ ~IsDigit(str[i]) THEN i - 1 ELSE DigitRun(str, i + 1)

\* Value of a digit string, stopping at the first value past the range.
RECURSIVE DigitsValue(_, _, _)
DigitsValue(str, i, acc) ==
    IF i > Len(str) \/ acc > MaxU THEN acc
    ELSE DigitsValue(str, i + 1, acc * 10 + DigitValue(str[i]))

\* std::stoull(str) and operator>>(std::istream&, uint64_t&): skip leading
\* white space, take an optional sign, then the longest run of digits; whatever
\* follows the digits is left alone.  No digit, or a magnitude past the range,
\* fails (stoull throws, the stream sets failbit); a leading '-' negates the
\* value modulo 2^WordBits.
ParseUnsigned(str) ==
    LET afterSpace == SpaceRun(str, 1) + 1
        signed     == afterSpace <= Len(str) /\ str[afterSpace] \in {"-", "+"}
        negative   == signed /\ str[afterSpace] = "-"
        first      == IF signed THEN afterSpace + 1 ELSE afterSpace
        last       == DigitRun(str, first)
        magnitude  == DigitsValue(SubSeq(str, first, last), 1, 0)
    IN  IF last < first \/ magnitude > MaxU
        THEN [ok |-> FALSE, value |-> 0, rest |-> <<>>]
        ELSE [ok |-> TRUE,
              value |-> IF negative THEN (U64 - magnitude) % U64 ELSE magnitude,
              rest |-> SubSeq(str, last + 1, Len(str))]

\* operator>>(std::istream&, std::string&): skip leading white space, take the
\* characters up to the next white space; fails when none is left.
ExtractToken(str) ==
    LET first == SpaceRun(str, 1) + 1
        last  == TokenRun(str, first)
    IN  [ok |-> last >= first,
         token |-> SubSeq(str, first, last),
         rest |-> SubSeq(str, last + 1, Len(str))]

\* The lines std::getline yields, one call after another, until it fails.
RECURSIVE FirstNewline(_, _)
FirstNewline(data, i) ==
    IF i > Len(data) THEN 0
    ELSE IF data[i] = Newline THEN i
    ELSE FirstNewline(data, i + 1)
RECURSIVE GetLines(_)
GetLines(data) ==
    IF data = <<>> THEN <<>>
    ELSE LET nl == FirstNewline(data, 1)
         IN  IF nl = 0 THEN <<data>>
             ELSE <<SubSeq(data, 1, nl - 1)>> \o GetLines(SubSeq(data, nl + 1, Len(data)))

RECURSIVE Concat(_)
Concat(seqs) == IF seqs = <<>> THEN <<>> ELSE Head(seqs) \o Concat(Tail(seqs))

\* --------------------------------------------------------------- StateManager
VersionKey == <<"V", "E", "R", "S", "I", "O", "N", " ">>
TimestampKey == <<"T", "I", "M", "E", "S", "T", "A", "M", "P", " ">>
NetworkPrefix == <<"N", "E", "T", "W", "O", "R", "K", "_">>
DiskPrefix == <<"D", "I", "S", "K", "_">>
FieldIn == <<"I", "N">>
FieldOut == <<"O", "U", "T">>
FieldRead == <<"R", "E", "A", "D">>
FieldWrite == <<"W", "R", "I", "T", "E">>
\* static constexpr const char* VERSION = "1.0"
VERSION == <<"1", ".", "0">>

\* SystemMetrics, as far as the state store reads and writes it.
Optional(has, val) == [has |-> has, val |-> val]
NoValue == Optional(FALSE, <<>>)
InterfaceStats(name, totalIn, totalOut) ==
    [name |-> name, totalInOctets |-> totalIn, totalOutOctets |-> totalOut]
DiskStats(deviceName, totalRead, totalWritten) ==
    [deviceName |-> deviceName, totalBytesRead |-> totalRead, totalBytesWritten |-> totalWritten]
SystemMetrics(timestamp, network, disks) ==
    [timestamp |-> timestamp, network |-> network, disks |-> disks]

validateVersion_FirstCharOnly(version) == Substr(version, 0, 1) = <<"1">>

validateVersion(version) == Substr(version, 0, 2) = <<"1", ".">>

sanitizeKey(key) ==
    [i \in 1..Len(key) |->
        IF key[i] \in {Tab, Newline, CarriageReturn} THEN Underscore ELSE key[i]]

\* Index of the first element of devices with the given name, 0 if none.
FindInterface(networkInterfaces, interfaceName) ==
    IF \E i \in 1..Len(networkInterfaces) : networkInterfaces[i].name = interfaceName
    THEN CHOOSE i \in 1..Len(networkInterfaces) :
            /\ networkInterfaces[i].name = interfaceName
            /\ \A j \in 1..(i - 1) : networkInterfaces[j].name # interfaceName
    ELSE 0
FindDisk(disks, deviceName) ==
    IF \E i \in 1..Len(disks) : disks[i].deviceName = deviceName
    THEN CHOOSE i \in 1..Len(disks) :
            /\ disks[i].deviceName = deviceName
            /\ \A j \in 1..(i - 1) : disks[j].deviceName # deviceName
    ELSE 0

\* One pass of the loop that reads the metrics lines: acc holds the two
\* vectors built so far.
LoadLine(acc, line) ==
    IF line = <<>> THEN acc
    ELSE
    LET k == ExtractToken(line)
        v == ParseUnsigned(k.rest)
        key == k.token
        value == v.value
        lastUnderscore == RFind(key, Underscore)
    IN  IF ~(k.ok /\ v.ok) THEN acc
        ELSE IF Substr(key, 0, 8) = NetworkPrefix THEN
            IF lastUnderscore = 0 - 1 \/ lastUnderscore <= 8 THEN acc
            ELSE LET interfaceName == Substr(key, 8, lastUnderscore - 8)
                     field == SubstrFrom(key, lastUnderscore + 1)
                     found == FindInterface(acc.net, interfaceName)
                     list  == IF found = 0
                              THEN Append(acc.net, InterfaceStats(interfaceName, 0, 0))
                              ELSE acc.net
                     it    == IF found = 0 THEN Len(list) ELSE found
                 IN  [acc EXCEPT !.net =
                        IF field = FieldIn THEN [list EXCEPT ![it].totalInOctets = value]
                        ELSE IF field = FieldOut THEN [list EXCEPT ![it].totalOutOctets = value]
                        ELSE list]
        ELSE IF Substr(key, 0, 5) = DiskPrefix THEN
            IF lastUnderscore = 0 - 1 \/ lastUnderscore <= 5 THEN acc
            ELSE LET deviceName == Substr(key, 5, lastUnderscore - 5)
                     field == SubstrFrom(key, lastUnderscore + 1)
                     found == FindDisk(acc.disks, deviceName)
                     list  == IF found = 0
                              THEN Append(acc.disks, DiskStats(deviceName, 0, 0))
                              ELSE acc.disks
                     it    == IF found = 0 THEN Len(list) ELSE found
                 IN  [acc EXCEPT !.disks =
                        IF field = FieldRead THEN [list EXCEPT ![it].totalBytesRead = value]
                        ELSE IF field = FieldWrite THEN [list EXCEPT ![it].totalBytesWritten = value]
                        ELSE list]
        ELSE acc

RECURSIVE LoadLines(_, _, _)
LoadLines(acc, lines, i) ==
    IF i > Len(lines) THEN acc
    ELSE LoadLines(LoadLine(acc, lines[i]), lines, i + 1)

Miss_OutputsReset(metrics, timestamp) ==
    [found |-> FALSE, metrics |-> SystemMetrics(0, NoValue, NoValue), timestamp |-> 0]

\* `return false` in StateManager::load: every one of them comes before the
\* first assignment to an out-parameter.
Miss(metrics, timestamp) == [found |-> FALSE, metrics |-> metrics, timestamp |-> timestamp]

\* StateManager::load(metrics, timestamp) on the state file f, which the
\* process can open or not: the return value and the two out-parameters.
load(f, canOpen, metrics, timestamp) ==
    LET miss  == Miss(metrics, timestamp)
        lines == GetLines(f.data)
    IN  IF ~f.exists THEN miss
        ELSE IF ~canOpen THEN miss
        ELSE IF Len(lines) < 1 THEN miss
        ELSE IF Substr(lines[1], 0, 8) # VersionKey THEN miss
        ELSE IF ~validateVersion(SubstrFrom(lines[1], 8)) THEN miss
        ELSE IF Len(lines) < 2 THEN miss
        ELSE IF Substr(lines[2], 0, 10) # TimestampKey THEN miss
        ELSE LET ts == ParseUnsigned(SubstrFrom(lines[2], 10))
             IN  IF ~ts.ok THEN miss
                 ELSE LET acc == LoadLines([net |-> <<>>, disks |-> <<>>], lines, 3)
                      IN  [found |-> TRUE,
                           metrics |->
                             [metrics EXCEPT
                                !.network = IF acc.net # <<>> THEN Optional(TRUE, acc.net) ELSE @,
                                !.disks = IF acc.disks # <<>> THEN Optional(TRUE, acc.disks) ELSE @],
                           timestamp |-> ts.value]

\* The lines StateManager::save streams into the file, in order.
InterfaceLines(iface) ==
    LET safeName == sanitizeKey(iface.name)
    IN  <<NetworkPrefix \o safeName \o <<Underscore>> \o FieldIn \o <<Space>>
              \o ToDecimal(iface.totalInOctets) \o <<Newline>>,
          NetworkPrefix \o safeName \o <<Underscore>> \o FieldOut \o <<Space>>
              \o ToDecimal(iface.totalOutOctets) \o <<Newline>>>>
DiskLines(disk) ==
    LET safeName == sanitizeKey(disk.deviceName)
    IN  <<DiskPrefix \o safeName \o <<Underscore>> \o FieldRead \o <<Space>>
              \o ToDecimal(disk.totalBytesRead) \o <<Newline>>,
          DiskPrefix \o safeName \o <<Underscore>> \o FieldWrite \o <<Space>>
              \o ToDecimal(disk.totalBytesWritten) \o <<Newline>>>>
SaveLines(metrics) ==
    <<VersionKey \o VERSION \o <<Newline>>,
      TimestampKey \o ToDecimal(metrics.timestamp) \o <<Newline>>>>
    \o (IF metrics.network.has
        THEN Concat([i \in 1..Len(metrics.network.val) |-> InterfaceLines(metrics.network.val[i])])
        ELSE <<>>)
    \o (IF metrics.disks.has
        THEN Concat([i \in 1..Len(metrics.disks.val) |-> DiskLines(metrics.disks.val[i])])
        ELSE <<>>)

File(data) == [exists |-> TRUE, data |-> data]
NoFile == [exists |-> FALSE, data |-> <<>>]

\* StateManager::save(metrics) on the state file f.  The stream is opened
\* with std::ios::trunc; outcome says how the I/O went: "ok", "openFails"
\* (is_open() is false, the file is as it was) or "writeFails" (the file was
\* truncated, only the first `written` lines reached it, good() is false).
save(f, metrics, outcome, written) ==
    IF outcome = "openFails" THEN [ret |-> FALSE, file |-> f]
    ELSE IF outcome = "writeFails"
    THEN [ret |-> FALSE, file |-> File(Concat(SubSeq(SaveLines(metrics), 1, written)))]
    ELSE [ret |-> TRUE, file |-> File(Concat(SaveLines(metrics)))]

VARIABLES dcCall, dcCurrent, dcPrevious, dcElapsed, dcFrequency, dcResult

dcVars == <<dcCall, dcCurrent, dcPrevious, dcElapsed, dcFrequency, dcResult>>

DeltaIdle ==
    /\ dcCall = "none"
    /\ dcCurrent = 0
    /\ dcPrevious = 0
    /\ dcElapsed = RatZero
    /\ dcFrequency = 0
    /\ dcResult = RatZero

InitDeltaInputs ==
    /\ dcCall = "none"
    /\ dcCurrent \in U64Values
    /\ dcPrevious \in U64Values
    /\ dcElapsed \in ElapsedValues
    /\ dcFrequency \in FrequencyValues
    /\ dcResult = RatZero

CallCalculateRate ==
    /\ dcCall = "none"
    /\ dcCall' = "calculateRate"
    /\ dcResult' = calculateRate(dcCurrent, dcPrevious, dcElapsed)
    /\ UNCHANGED <<dcCurrent, dcPrevious, dcElapsed, dcFrequency>>

CallCalculateElapsedSeconds ==
    /\ dcCall = "none"
    /\ dcCall' = "calculateElapsedSeconds"
    /\ dcResult' = calculateElapsedSeconds(dcCurrent, dcPrevious, dcFrequency)
    /\ UNCHANGED <<dcCurrent, dcPrevious, dcElapsed, dcFrequency>>

\* ------------------------------------------------ inputs of the state store
\* Device names: plain, with spaces, with quotes and colons, with an
\* underscore before a space, with tab / LF / CR.
NameEth == <<"e", "t", "h">>
NameEth2 == <<"e", "t", "h", Space, "2">>
NameQuoted == <<"e", Space, Quote, "T", Quote, Space, "2">>
NameColonQuote == <<"a", Quote, "b", ":", "c">>
NameUnderSpace == <<"x", Underscore, "y", Space, "2">>
NameTab == <<"a", Tab, "b">>
NameUnder == <<"a", Underscore, "b">>
NameTabSpace == <<"a", Tab, "b", Space, "2">>
NameDrive == <<"C", ":">>
NameIndexDrive == <<"0", Space, "C", ":">>
NameDriveSystem == <<"0", Space, "C", ":", Space, "S">>
NameLf == <<"c", Newline, "d">>
NameCr == <<"e", CarriageReturn, "f">>

NetworkInputs ==
    <<NoValue,
      Optional(TRUE, <<>>),
      Optional(TRUE, <<InterfaceStats(NameEth, 5, 6)>>),
      Optional(TRUE, <<InterfaceStats(NameEth2, 5, 6)>>),
      Optional(TRUE, <<InterfaceStats(NameQuoted, 5, 6)>>),
      Optional(TRUE, <<InterfaceStats(NameColonQuote, 1, MaxU)>>),
      Optional(TRUE, <<InterfaceStats(NameUnderSpace, 5, 6)>>),
      Optional(TRUE, <<InterfaceStats(NameTab, 5, 6)>>),
      Optional(TRUE, <<InterfaceStats(NameTab, 5, 6), InterfaceStats(NameUnder, 1, 2)>>),
      Optional(TRUE, <<InterfaceStats(NameEth, HalfMax, 0), InterfaceStats(NameUnder, 1, 2)>>),
      Optional(TRUE, <<InterfaceStats(NameTabSpace, 5, 6)>>)>>
DiskInputs ==
    <<NoValue,
      Optional(TRUE, <<DiskStats(NameDrive, 7, 8)>>),
      Optional(TRUE, <<DiskStats(NameIndexDrive, 7, 8)>>),
      Optional(TRUE, <<DiskStats(NameDriveSystem, 7, 8)>>),
      Optional(TRUE, <<DiskStats(NameLf, 7, 8), DiskStats(NameCr, 9, 10)>>)>>
\* The (network, disks) pairs a snapshot to save is made of.
DeviceInputs ==
    {<<1, 1>>, <<2, 1>>, <<3, 1>>, <<3, 2>>, <<1, 2>>, <<4, 3>>, <<5, 4>>, <<6, 2>>,
     <<7, 1>>, <<7, 2>>, <<8, 5>>, <<8, 1>>, <<9, 1>>, <<10, 2>>, <<1, 5>>, <<11, 1>>}
TimestampInputs == {7, MaxU}
SaveInputs ==
    {SystemMetrics(t, NetworkInputs[d[1]], DiskInputs[d[2]]) :
        t \in TimestampInputs, d \in DeviceInputs}

\* What the caller hands to load(): a default-constructed SystemMetrics and
\* previousTimestamp = 0, or a structure that already holds something.
DefaultMetrics == SystemMetrics(0, NoValue, NoValue)
LoadInputs ==
    {[metrics |-> DefaultMetrics, timestamp |-> 0],
     [metrics |-> SystemMetrics(0, Optional(TRUE, <<InterfaceStats(NameEth, 1, 1)>>), NoValue),
      timestamp |-> 9]}

\* State files found at process start: none, or one that something else
\* left behind (an older tool version, a damaged or hand-edited file).
VersionTag(major, minor) == ToDecimal(major) \o <<".">> \o ToDecimal(minor)
MajorInputs == {0, 1, 2, 10, 11}
MinorInputs == {0, 5, 10}
TextCorrupted == <<"C", "O", "R", "R", "U", "P", "T", "E", "D", " ", "D", "A", "T", "A">>
TextInvalid == <<"I", "N", "V", "A", "L", "I", "D", " ", "F", "O", "R", "M", "A", "T">>
TextGarbage == <<"g", "a", "r", "b", "a", "g", "e">>
FirstLineInputs ==
    {VersionKey \o VersionTag(major, minor) : major \in MajorInputs, minor \in MinorInputs}
    \cup {TextCorrupted, SubSeq(VersionKey, 1, 7), <<>>}
SecondLineInputs ==
    {TimestampKey \o ToDecimal(7),
     TimestampKey \o ToDecimal(MaxU),
     TimestampKey \o ToDecimal(MaxU + 1),
     TimestampKey \o <<"7", "x">>,
     TimestampKey \o <<"-", "3">>,
     TimestampKey \o <<"x">>,
     TimestampKey,
     SubSeq(TimestampKey, 1, 9),
     TextInvalid}
KeyNetIn == NetworkPrefix \o <<"a">> \o <<Underscore>> \o FieldIn
KeyNetOut == NetworkPrefix \o <<"a">> \o <<Underscore>> \o FieldOut
KeyDiskRead == DiskPrefix \o NameDrive \o <<Underscore>> \o FieldRead
KeyDiskWrite == DiskPrefix \o NameDrive \o <<Underscore>> \o FieldWrite
DataLineInputs ==
    {KeyNetIn \o <<Space>> \o ToDecimal(5),
     KeyNetOut \o <<Space>> \o ToDecimal(6),
     KeyDiskRead \o <<Space>> \o ToDecimal(7),
     KeyDiskWrite \o <<Space>> \o ToDecimal(MaxU),
     TextGarbage,
     KeyNetIn,
     KeyNetOut \o <<Space, "x">>,
     KeyNetIn \o <<Space, "7", "x">>,
     KeyNetOut \o <<Space, "-", "3">>,
     KeyDiskRead \o <<Space>> \o ToDecimal(MaxU + 1),
     <<>>}
DataLineSeqs == UNION {[1..n -> DataLineInputs] : n \in 1..MaxDataLines}
FileOfLines(lines) == File(Concat([i \in 1..Len(lines) |-> lines[i] \o <<Newline>>]))
GoodFirstLine == VersionKey \o VERSION
GoodSecondLine == TimestampKey \o ToDecimal(7)
FileInputs ==
    {NoFile, File(<<>>)}
    \cup {FileOfLines(<<first>>) : first \in FirstLineInputs}
    \cup {FileOfLines(<<first, second>>) : first \in FirstLineInputs, second \in SecondLineInputs}
    \cup {FileOfLines(<<GoodFirstLine, GoodSecondLine>> \o data) : data \in DataLineSeqs}

\* ------------------------------------------------------------------- state
\* file       the state file <temp directory>/<appName>.dat
\* stCall     the call made last on the StateManager: "none", "load", "save"
\* loadIn     the arguments of the last load() and whether the file would open
\* loadOut    what that load() returned and left in its out-parameters
\* saveRet    what the last save() returned
\* persisted  the snapshot of the last save() that returned true, for as long
\*            as no later save() has truncated the file
\* lastGood   how many save() calls returned true (counted up to 2) and the
\*            timestamp of the latest of them
VARIABLES file, stCall, loadIn, loadOut, saveRet, persisted, lastGood

stVars == <<file, stCall, loadIn, loadOut, saveRet, persisted, lastGood>>

NoLoadIn == [canOpen |-> TRUE, metrics |-> DefaultMetrics, timestamp |-> 0]
NoLoadOut == [found |-> FALSE, metrics |-> DefaultMetrics, timestamp |-> 0]
NotPersisted == [has |-> FALSE, metrics |-> DefaultMetrics]

StoreIdle ==
    /\ stCall = "none"
    /\ loadIn = NoLoadIn
    /\ loadOut = NoLoadOut
    /\ saveRet = FALSE
    /\ persisted = NotPersisted
    /\ lastGood = [count |-> 0, timestamp |-> 0]

Load(canOpen, in) ==
    /\ stCall' = "load"
    /\ loadIn' = [canOpen |-> canOpen, metrics |-> in.metrics, timestamp |-> in.timestamp]
    /\ loadOut' = load(file, canOpen, in.metrics, in.timestamp)
    /\ UNCHANGED <<file, saveRet, persisted, lastGood>>

Save(metrics, outcome, written) ==
    LET r == save(file, metrics, outcome, written)
    IN  /\ stCall' = "save"
        /\ file' = r.file
        /\ saveRet' = r.ret
        /\ persisted' = IF outcome = "ok" THEN [has |-> TRUE, metrics |-> metrics]
                        ELSE IF outcome = "writeFails" THEN NotPersisted
                        ELSE persisted
        /\ lastGood' = IF outcome = "ok"
                       THEN [count |-> Min(lastGood.count + 1, 2), timestamp |-> metrics.timestamp]
                       ELSE lastGood
        /\ loadIn' = NoLoadIn
        /\ loadOut' = NoLoadOut

LoadCall == \E canOpen \in BOOLEAN, in \in LoadInputs : Load(canOpen, in)
SaveSucceeds == \E metrics \in SaveInputs : Save(metrics, "ok", 0)
SaveOpenFails == \E metrics \in SaveInputs : Save(metrics, "openFails", 0)
SaveWriteFails ==
    \E metrics \in SaveInputs :
        \E written \in 0..(Len(SaveLines(metrics)) - 1) : Save(metrics, "writeFails", written)

\* ------------------------------------------------- the PDH provider (pdh.dll)
\* The queries opened so far, in the order they were opened.  A query handle
\* is the index of its query, 0 is nullptr; handles are not reused.  owner
\* tells which collector opened the query.
NewQuery(owner) == [open |-> TRUE, owner |-> owner, counters |-> {}, collects |-> 0]
PdhOpenQuery(os, owner) == Append(os, NewQuery(owner))
\* Closing a query releases the counters registered in it.
PdhCloseQuery(os, h) ==
    [os EXCEPT ![h] = [@ EXCEPT !.open = FALSE, !.counters = {}, !.collects = 0]]
Counter(h, inst, kind) == [query |-> h, inst |-> inst, kind |-> kind]
NullCounter == Counter(0, <<>>, "")
PdhAddCounter(os, counter) ==
    [os EXCEPT ![counter.query].counters = @ \cup {counter}]
PdhCollectQueryData(os, h) == [os EXCEPT ![h].collects = @ + 1]
OpenQueries(os, owner) == {h \in 1..Len(os) : os[h].open /\ os[h].owner = owner}

TotalInstance == <<"_", "T", "o", "t", "a", "l">>
KindCpu == "% Processor Time"
KindRead == "Disk Read Bytes/sec"
KindWrite == "Disk Write Bytes/sec"
KindBusy == "% Disk Time"

\* What a collector call hands back: the collector, the provider, and whether
\* the call left by an exception.
Outcome(mon, os, threw) == [mon |-> mon, pdh |-> os, threw |-> threw]

\* ------------------------------------------------------------------ CpuMonitor
NewCpuMonitor ==
    [hQuery |-> 0, hCpuTotal |-> NullCounter, hCpuCores |-> <<>>,
     initialized |-> FALSE, coreCount |-> 0]

cpuCleanup_KeepInitialized(c, os) ==
    Outcome([NewCpuMonitor EXCEPT !.initialized = c.initialized],
            IF c.hQuery # 0 THEN PdhCloseQuery(os, c.hQuery) ELSE os, FALSE)

cpuCleanup_NoClose(c, os) == Outcome(NewCpuMonitor, os, FALSE)

\* CpuMonitor::cleanup
cpuCleanup(c, os) ==
    Outcome([c EXCEPT !.hQuery = 0, !.hCpuTotal = NullCounter, !.hCpuCores = <<>>,
                      !.initialized = FALSE, !.coreCount = 0],
            IF c.hQuery # 0 THEN PdhCloseQuery(os, c.hQuery) ELSE os,
            FALSE)

\* The step of CpuMonitor::initialize at which the provider reports an error.
CpuFailure(step, index) == [step |-> step, index |-> index]
CpuFailures ==
    {CpuFailure(s, 0) : s \in {"none", "open", "total", "baseline"}}
    \cup {CpuFailure("core", i) : i \in 0..(NumberOfProcessors - 1)}

CoreInstance(i) == ToDecimal(i)

\* std::vector::resize(n) on a vector of counter handles.
ResizeCounters(v, n) == [i \in 1..n |-> IF i <= Len(v) THEN v[i] ELSE NullCounter]

\* The loop over the cores, from core i on: st holds mon and pdh.
RECURSIVE AddCoreCounters(_, _, _)
AddCoreCounters(st, i, fail) ==
    IF i >= st.mon.coreCount THEN st
    ELSE IF fail.step = "core" /\ fail.index = i
         THEN LET r == cpuCleanup(st.mon, st.pdh) IN Outcome(r.mon, r.pdh, TRUE)
         ELSE LET counter == Counter(st.mon.hQuery, CoreInstance(i), KindCpu)
              IN  AddCoreCounters(
                      Outcome([st.mon EXCEPT !.hCpuCores[i + 1] = counter],
                              PdhAddCounter(st.pdh, counter), FALSE),
                      i + 1, fail)

\* CpuMonitor::initialize past the initialized_ test.
cpuInitializeBody(c, os, fail) ==
    LET c1 == [c EXCEPT !.coreCount = NumberOfProcessors]
    IN  IF fail.step = "open" THEN Outcome(c1, os, TRUE)
        ELSE
        LET os1 == PdhOpenQuery(os, "cpu")
            c2 == [c1 EXCEPT !.hQuery = Len(os1)]
        IN  IF fail.step = "total"
            THEN Outcome([c2 EXCEPT !.hQuery = 0], PdhCloseQuery(os1, c2.hQuery), TRUE)
            ELSE
            LET total == Counter(c2.hQuery, TotalInstance, KindCpu)
                c3 == [c2 EXCEPT !.hCpuTotal = total,
                                 !.hCpuCores = ResizeCounters(@, c2.coreCount)]
                r == AddCoreCounters(Outcome(c3, PdhAddCounter(os1, total), FALSE), 0, fail)
            IN  IF r.threw THEN r
                ELSE IF fail.step = "baseline"
                     THEN LET q == cpuCleanup(r.mon, r.pdh) IN Outcome(q.mon, q.pdh, TRUE)
                     ELSE Outcome([r.mon EXCEPT !.initialized = TRUE],
                                  PdhCollectQueryData(r.pdh, r.mon.hQuery), FALSE)

cpuInitialize_NoGuard(c, os, fail) == cpuInitializeBody(c, os, fail)

\* CpuMonitor::initialize
cpuInitialize(c, os, fail) ==
    IF c.initialized THEN Outcome(c, os, FALSE) ELSE cpuInitializeBody(c, os, fail)

\* ----------------------------------------------------------------- DiskMonitor
NewDiskMonitor == [hQuery |-> 0, initialized |-> FALSE, counters |-> <<>>]

diskCleanup_KeepCounters(d, os) ==
    Outcome([d EXCEPT !.hQuery = 0, !.initialized = FALSE],
            IF d.hQuery # 0 THEN PdhCloseQuery(os, d.hQuery) ELSE os,
            FALSE)

\* DiskMonitor::cleanup
diskCleanup(d, os) ==
    Outcome([d EXCEPT !.hQuery = 0, !.counters = <<>>, !.initialized = FALSE],
            IF d.hQuery # 0 THEN PdhCloseQuery(os, d.hQuery) ELSE os,
            FALSE)

DiskCounters(bytesRead, bytesWritten, percentBusy) ==
    [bytesRead |-> bytesRead, bytesWritten |-> bytesWritten, percentBusy |-> percentBusy]

\* DiskMonitor::addDiskCounters; failKind tells which PdhAddCounterW reports
\* an error: 0 none, 1 the read counter, 2 the write counter, 3 the busy one.
addDiskCounters(d, os, diskInstance, failKind) ==
    LET bytesRead == Counter(d.hQuery, diskInstance, KindRead)
        bytesWritten == Counter(d.hQuery, diskInstance, KindWrite)
        percentBusy == Counter(d.hQuery, diskInstance, KindBusy)
        os1 == PdhAddCounter(os, bytesRead)
        os2 == PdhAddCounter(os1, bytesWritten)
        os3 == PdhAddCounter(os2, percentBusy)
    IN  IF failKind = 1 THEN Outcome(d, os, TRUE)
        ELSE IF failKind = 2 THEN Outcome(d, os1, TRUE)
        ELSE IF failKind = 3 THEN Outcome(d, os2, TRUE)
        ELSE Outcome([d EXCEPT !.counters =
                          (diskInstance :> DiskCounters(bytesRead, bytesWritten, percentBusy)) @@ @],
                     os3, FALSE)

\* What the provider answers during DiskMonitor::initialize: whether the
\* query opens, the instances PdhEnumObjectItemsW lists (none when it fails),
\* for each of them and for _Total the counter that cannot be added, and
\* whether the first collection succeeds.  A call that is not made has no
\* answer: totalFail is 0 unless _Total is tried, baseline is TRUE unless the
\* first collection is reached.
DiskResponse(open, instances, fails, totalFail, baseline) ==
    [open |-> open, instances |-> instances, fails |-> fails,
     totalFail |-> totalFail, baseline |-> baseline]
PdhDiskC == <<"0", " ", "C", ":">>
PdhDiskD == <<"1", " ", "D", ":">>
DiskInstanceInputs == {<<>>, <<PdhDiskC>>, <<PdhDiskC, PdhDiskD>>}
FailKinds == {0, 1, 3}
NoDiskResponse == DiskResponse(TRUE, <<>>, <<>>, 0, TRUE)
DiskResponses ==
    {DiskResponse(FALSE, <<>>, <<>>, 0, TRUE)}
    \cup
    {r \in {DiskResponse(TRUE, instances, fails, totalFail, baseline) :
                instances \in DiskInstanceInputs,
                fails \in UNION {[1..n -> FailKinds] : n \in 0..2},
                totalFail \in FailKinds,
                baseline \in BOOLEAN} :
        /\ Len(r.fails) = Len(r.instances)
        /\ r.totalFail # 0 => \A i \in 1..Len(r.fails) : r.fails[i] # 0
        /\ ~r.baseline => r.totalFail = 0}

\* The loop over the enumerated instances, from the i-th on; an exception of
\* addDiskCounters is caught and the loop goes on.
RECURSIVE AddInstances(_, _, _)
AddInstances(st, i, resp) ==
    IF i > Len(resp.instances) THEN st
    ELSE LET r == addDiskCounters(st.mon, st.pdh, resp.instances[i], resp.fails[i])
         IN  AddInstances(Outcome(r.mon, r.pdh, FALSE), i + 1, resp)

\* DiskMonitor::initialize past the initialized_ test.
diskInitializeBody(d, os, resp) ==
    IF ~resp.open THEN Outcome(d, os, TRUE)
    ELSE
    LET os1 == PdhOpenQuery(os, "disk")
        d1 == [d EXCEPT !.hQuery = Len(os1)]
        r == AddInstances(Outcome(d1, os1, FALSE), 1, resp)
        t == IF DOMAIN r.mon.counters = {}
             THEN addDiskCounters(r.mon, r.pdh, TotalInstance, resp.totalFail)
             ELSE r
    IN  IF t.threw
        THEN LET q == diskCleanup(t.mon, t.pdh) IN Outcome(q.mon, q.pdh, TRUE)
        ELSE IF ~resp.baseline
             THEN LET q == diskCleanup(t.mon, t.pdh) IN Outcome(q.mon, q.pdh, TRUE)
             ELSE Outcome([t.mon EXCEPT !.initialized = TRUE],
                          PdhCollectQueryData(t.pdh, t.mon.hQuery), FALSE)

diskInitialize_NoGuard(d, os, resp) == diskInitializeBody(d, os, resp)

\* DiskMonitor::initialize
diskInitialize(d, os, resp) ==
    IF d.initialized THEN Outcome(d, os, FALSE) ELSE diskInitializeBody(d, os, resp)

\* ------------------------------------------------- CpuMonitor::getCurrentStats
\* An answer of the provider to one call: a value, or an error status.
Answer(ok, value) == [ok |-> ok, value |-> value]
ClampPercent_Identity(x) == x

\* if (x < 0.0) x = 0.0; if (x > 100.0) x = 100.0;  The percentages are
\* doubles in the code; the model takes whole numbers.
ClampPercent(x) == IF x < 0 THEN 0 ELSE IF x > 100 THEN 100 ELSE x
RECURSIVE Sum(_)
Sum(v) == IF v = <<>> THEN 0 ELSE (Head(v) + Sum(Tail(v))) % U64
\* CpuMonitor::calculateAverageFrequency
calculateAverageFrequency(frequencies) ==
    IF frequencies = <<>> THEN 0 ELSE Sum(frequencies) \div Len(frequencies)
CoreStats(coreId, usagePercent, frequencyMhz) ==
    [coreId |-> coreId, usagePercent |-> usagePercent, frequencyMhz |-> frequencyMhz]
CpuStats(totalUsagePercent, cores, averageFrequencyMhz) ==
    [totalUsagePercent |-> totalUsagePercent, cores |-> cores,
     averageFrequencyMhz |-> averageFrequencyMhz]
\* What the provider answers during CpuMonitor::getCurrentStats: whether the
\* collection succeeds, the total and per-core percentages, the frequencies.
CpuSample(collect, total, cores, frequencies) ==
    [collect |-> collect, total |-> total, cores |-> cores, frequencies |-> frequencies]
Result(mon, os, threw, stats) == [mon |-> mon, pdh |-> os, threw |-> threw, stats |-> stats]
NoStats == <<>>

cpuGetCurrentStatsBody(c, os, resp) ==
    IF ~resp.collect THEN Result(c, os, TRUE, NoStats)
    ELSE
    LET os1 == PdhCollectQueryData(os, c.hQuery)
    IN  IF ~resp.total.ok THEN Result(c, os1, TRUE, NoStats)
        ELSE IF \E i \in 1..c.coreCount : ~resp.cores[i].ok THEN Result(c, os1, TRUE, NoStats)
        ELSE
        LET frequencyMhz(i) ==
                IF resp.frequencies.ok /\ i <= Len(resp.frequencies.value)
                THEN resp.frequencies.value[i] ELSE 0
            cores == [i \in 1..c.coreCount |->
                         CoreStats(i - 1, ClampPercent(resp.cores[i].value), frequencyMhz(i))]
            average == IF resp.frequencies.ok
                       THEN calculateAverageFrequency(resp.frequencies.value) ELSE 0
        IN  Result(c, os1, FALSE, CpuStats(ClampPercent(resp.total.value), cores, average))

cpuGetCurrentStats_EmptyWhenUninitialized(c, os, resp) ==
    IF ~c.initialized THEN Result(c, os, FALSE, CpuStats(0, <<>>, 0))
    ELSE cpuGetCurrentStatsBody(c, os, resp)

cpuGetCurrentStats(c, os, resp) ==
    IF ~c.initialized THEN Result(c, os, TRUE, NoStats)
    ELSE cpuGetCurrentStatsBody(c, os, resp)

\* ------------------------------------------------ DiskMonitor::getCurrentStats
\* extractFriendlyDiskName: "_Total" as it is, else what follows the first
\* space, if anything does.
RECURSIVE FindChar(_, _, _)
FindChar(str, c, i) ==
    IF i >= Len(str) THEN 0 - 1 ELSE IF str[i + 1] = c THEN i ELSE FindChar(str, c, i + 1)
extractFriendlyDiskName(pdhDiskName) ==
    LET spacePos == FindChar(pdhDiskName, Space, 0)
    IN  IF pdhDiskName = TotalInstance THEN pdhDiskName
        ELSE IF spacePos # 0 - 1 /\ spacePos + 1 < Len(pdhDiskName)
             THEN SubstrFrom(pdhDiskName, spacePos + 1)
             ELSE pdhDiskName
\* std::map iterates its keys in ascending order: '0' < '1' < '_'.
InstanceOrder == <<PdhDiskC, PdhDiskD, TotalInstance>>
MapKeys(m) == SelectSeq(InstanceOrder, LAMBDA n : n \in DOMAIN m)
DiskSample(deviceName, bytesReadPerSec, bytesWrittenPerSec, percentBusy, totalBytesRead, totalBytesWritten) ==
    [deviceName |-> deviceName,
     bytesReadPerSec |-> bytesReadPerSec, bytesWrittenPerSec |-> bytesWrittenPerSec,
     percentBusy |-> percentBusy,
     totalBytesRead |-> totalBytesRead, totalBytesWritten |-> totalBytesWritten]
\* What the provider answers during DiskMonitor::getCurrentStats: whether
\* the collection succeeds and, for every instance, the three formatted values
\* (an answer that is not ok stands for an error status or invalid data).
DiskAnswers(collect, values) == [collect |-> collect, values |-> values]
DiskValues(read, write, busy) == [read |-> read, write |-> write, busy |-> busy]

diskGetCurrentStats(d, os, resp) ==
    IF ~d.initialized THEN Result(d, os, TRUE, NoStats)
    ELSE IF ~resp.collect THEN Result(d, os, TRUE, NoStats)
    ELSE
    LET keys == MapKeys(d.counters)
        stats(diskName) ==
            LET v == resp.values[diskName]
            IN  DiskSample(extractFriendlyDiskName(diskName),
                           IF v.read.ok THEN v.read.value ELSE 0,
                           IF v.write.ok THEN v.write.value ELSE 0,
                           IF v.busy.ok THEN v.busy.value ELSE 0,
                           0, 0)
    IN  Result(d, PdhCollectQueryData(os, d.hQuery), FALSE,
               [i \in 1..Len(keys) |-> stats(keys[i])])

\* ---------------------------------------------- MemoryMonitor, NetworkMonitor
MemoryStats(totalPhysicalBytes, availablePhysicalBytes) ==
    LET used == (totalPhysicalBytes - availablePhysicalBytes) % U64
    IN  [totalPhysicalBytes |-> totalPhysicalBytes,
         availablePhysicalBytes |-> availablePhysicalBytes,
         usedPhysicalBytes |-> used,
         usagePercent |-> IF totalPhysicalBytes > 0
                          THEN Rat(ToDouble(used) * 100, ToDouble(totalPhysicalBytes))
                          ELSE RatZero]
\* MemoryMonitor::getCurrentStats; resp is what GlobalMemoryStatusEx answers.
memoryGetCurrentStats(resp) ==
    IF ~resp.ok THEN [threw |-> TRUE, stats |-> NoStats]
    ELSE [threw |-> FALSE, stats |-> MemoryStats(resp.value.total, resp.value.avail)]

IfTypeLoopback == 24
\* IF_TYPE_ETHERNET_CSMACD, any type that is no loopback
IfTypeEthernet == IfTypeLoopback - 18
IfRow(alias, type, inOctets, outOctets) ==
    [alias |-> alias, type |-> type, inOctets |-> inOctets, outOctets |-> outOctets]
InterfaceSample(name, totalIn, totalOut, inBytesPerSec, outBytesPerSec) ==
    [name |-> name, totalInOctets |-> totalIn, totalOutOctets |-> totalOut,
     inBytesPerSec |-> inBytesPerSec, outBytesPerSec |-> outBytesPerSec]
isLoopback(ifType) == ifType = IfTypeLoopback
\* NetworkMonitor::getCurrentStats; resp is what GetIfTable2 answers.
networkGetCurrentStats(resp) ==
    IF ~resp.ok THEN [threw |-> TRUE, stats |-> NoStats]
    ELSE LET rows == SelectSeq(resp.value, LAMBDA row : ~isLoopback(row.type))
         IN  [threw |-> FALSE,
              stats |-> [i \in 1..Len(rows) |->
                            InterfaceSample(rows[i].alias, rows[i].inOctets, rows[i].outOctets, 0, 0)]]

\* -------------------------------------------------------------- collectMetrics
\* SystemMetrics with all the members the sampling loop fills.  The member
\* timestamp has no initializer: in a default-constructed SystemMetrics it
\* is indeterminate, and what a read of it yields is chosen where it is read.
Indeterminate == 0 - 1
SystemMetricsOf(timestamp, cpuStats, memory, network, disks) ==
    [timestamp |-> timestamp, cpu |-> cpuStats, memory |-> memory,
     network |-> network, disks |-> disks]
NewSystemMetrics == SystemMetricsOf(Indeterminate, NoValue, NoValue, NoValue, NoValue)

CliOptions(showCpu, showMemory, showDiskSpace, showDiskIO, showNetwork, networkInterface, continuous) ==
    [showCpu |-> showCpu, showMemory |-> showMemory, showDiskSpace |-> showDiskSpace,
     showDiskIO |-> showDiskIO, showNetwork |-> showNetwork,
     networkInterface |-> networkInterface, continuous |-> continuous]

\* static_cast<uint64_t>(double) of a value that is not negative: the
\* fraction is dropped; a value past the range is undefined behaviour, ub is
\* what the build makes of it.
CastU64(r, ub) ==
    LET q == r.num \div r.den IN IF q <= MaxU THEN q ELSE ub
RatTimes(n, r) == Rat(n * r.num, r.den)
RatIsPositive(r) == r.num > 0 /\ r.den > 0

\* Index of the first element of the vector with the given name, 0 if none.
FindByName(v, name) ==
    IF \E i \in 1..Len(v) : v[i].name = name
    THEN CHOOSE i \in 1..Len(v) : v[i].name = name /\ \A j \in 1..(i - 1) : v[j].name # name
    ELSE 0
FindByDeviceName(v, deviceName) ==
    IF \E i \in 1..Len(v) : v[i].deviceName = deviceName
    THEN CHOOSE i \in 1..Len(v) :
            v[i].deviceName = deviceName /\ \A j \in 1..(i - 1) : v[j].deviceName # deviceName
    ELSE 0

WithRates_MissingAsZero(iface, previousMetrics, elapsedSeconds, ub) ==
    LET k == FindByName(previousMetrics.network.val, iface.name)
        prevIn == IF k = 0 THEN 0 ELSE previousMetrics.network.val[k].totalInOctets
        prevOut == IF k = 0 THEN 0 ELSE previousMetrics.network.val[k].totalOutOctets
    IN  [iface EXCEPT
           !.inBytesPerSec = CastU64(calculateRate(iface.totalInOctets, prevIn, elapsedSeconds), ub),
           !.outBytesPerSec = CastU64(calculateRate(iface.totalOutOctets, prevOut, elapsedSeconds), ub)]

\* The rates of one interface against the previous sample.
WithRates(iface, previousMetrics, elapsedSeconds, ub) ==
    LET k == FindByName(previousMetrics.network.val, iface.name)
    IN  IF k = 0 THEN iface
        ELSE LET prev == previousMetrics.network.val[k]
             IN  [iface EXCEPT
                    !.inBytesPerSec =
                        CastU64(calculateRate(iface.totalInOctets, prev.totalInOctets,
                                              elapsedSeconds), ub),
                    !.outBytesPerSec =
                        CastU64(calculateRate(iface.totalOutOctets, prev.totalOutOctets,
                                              elapsedSeconds), ub)]

\* The network part of collectMetrics once getCurrentStats has returned:
\* the value of metrics.network.
collectNetwork(options, stats, previousMetrics, elapsedSeconds, ub) ==
    LET interfaces ==
            IF RatIsPositive(elapsedSeconds) /\ previousMetrics.network.has
            THEN [i \in 1..Len(stats) |-> WithRates(stats[i], previousMetrics, elapsedSeconds, ub)]
            ELSE stats
        k == FindByName(interfaces, options.networkInterface)
    IN  IF options.networkInterface # <<>>
        THEN IF k # 0 THEN Optional(TRUE, <<interfaces[k]>>) ELSE NoValue
        ELSE Optional(TRUE, interfaces)

\* The cumulative totals of one disk, accumulated on the previous sample.
WithTotals(disk, previousMetrics, elapsedSeconds, ub) ==
    LET k == FindByDeviceName(previousMetrics.disks.val, disk.deviceName)
    IN  IF k = 0 THEN disk
        ELSE LET prev == previousMetrics.disks.val[k]
             IN  [disk EXCEPT
                    !.totalBytesRead =
                        (prev.totalBytesRead
                         + CastU64(RatTimes(ToDouble(disk.bytesReadPerSec), elapsedSeconds), ub)) % U64,
                    !.totalBytesWritten =
                        (prev.totalBytesWritten
                         + CastU64(RatTimes(ToDouble(disk.bytesWrittenPerSec), elapsedSeconds), ub)) % U64]

\* The disk part of collectMetrics once getCurrentStats has returned.
collectDisks(stats, previousMetrics, elapsedSeconds, ub) ==
    IF RatIsPositive(elapsedSeconds) /\ previousMetrics.disks.has
    THEN Optional(TRUE, [i \in 1..Len(stats) |-> WithTotals(stats[i], previousMetrics, elapsedSeconds, ub)])
    ELSE Optional(TRUE, stats)

collectMemory_Never(options, resp) == NoValue

\* The memory part of collectMetrics.
collectMemory(options, resp) ==
    LET r == memoryGetCurrentStats(resp)
    IN  IF options.showMemory /\ ~r.threw THEN Optional(TRUE, r.stats) ELSE NoValue

getCurrentTimestamp_Constant(counter) == 0

\* DeltaCalculator::getCurrentTimestamp once QueryPerformanceCounter has
\* succeeded: static_cast<uint64_t>(counter.QuadPart).
getCurrentTimestamp(counter) == counter.value % U64

\* What the system answers during one call of collectMetrics.
Cycle(tick, frequency, cpuSample, memory, network, diskAnswers, ub) ==
    [tick |-> tick, frequency |-> frequency, cpu |-> cpuSample, memory |-> memory,
     network |-> network, disk |-> diskAnswers, ub |-> ub]

\* collectMetrics: the SystemMetrics it returns, its local elapsedSeconds,
\* what it leaves of the two PDH collectors and of the provider, and whether
\* it left by an exception
\* (only the clock can make it: every family has its own try/catch).
collectMetrics(options, cpuMonitor, networkMonitor, diskMonitor, c, d, os, previousMetrics, previousTimestamp, env) ==
    IF ~env.tick.ok \/ ~env.frequency.ok
    THEN [threw |-> TRUE, metrics |-> NewSystemMetrics, elapsedSeconds |-> RatZero,
          cpu |-> c, disk |-> d, pdh |-> os]
    ELSE
    LET timestamp == getCurrentTimestamp(env.tick)
        elapsedSeconds ==
            calculateElapsedSeconds(timestamp, previousTimestamp, env.frequency.value)
        askCpu == options.showCpu /\ cpuMonitor
        rc == IF askCpu THEN cpuGetCurrentStats(c, os, env.cpu) ELSE Result(c, os, TRUE, NoStats)
        askNet == options.showNetwork /\ networkMonitor
        rn == networkGetCurrentStats(env.network)
        askDisk == (options.showDiskSpace \/ options.showDiskIO) /\ diskMonitor
        rd == IF askDisk THEN diskGetCurrentStats(d, rc.pdh, env.disk)
              ELSE Result(d, rc.pdh, TRUE, NoStats)
    IN  [threw |-> FALSE,
         elapsedSeconds |-> elapsedSeconds,
         metrics |->
            SystemMetricsOf(
                timestamp,
                IF askCpu /\ ~rc.threw THEN Optional(TRUE, rc.stats) ELSE NoValue,
                collectMemory(options, env.memory),
                IF askNet /\ ~rn.threw
                THEN collectNetwork(options, rn.stats, previousMetrics, elapsedSeconds, env.ub)
                ELSE NoValue,
                IF askDisk /\ ~rd.threw
                THEN collectDisks(rd.stats, previousMetrics, elapsedSeconds, env.ub)
                ELSE NoValue),
         cpu |-> rc.mon, disk |-> rd.mon, pdh |-> rd.pdh]

\* ------------------------------------------------------- state of the collectors
\* cpu, disk  the two collectors
\* pdh        the provider's queries
\* colCall    the call made last on a collector: which collector, which
\*            operation, whether the collector was initialized before it,
\*            whether the call before it was the same call, what the provider
\*            answered, whether it left by an exception
\*            and what getCurrentStats() returned
\* colStage   how far each collector has come: 0 never initialized, 1 an
\*            initialize() has succeeded, 2 cleanup() was called after that;
\*            cpuReady, diskReady: an initialize() has returned without an
\*            exception and no cleanup() was called since
VARIABLES cpu, disk, pdh, colCall, colStage

colVars == <<cpu, disk, pdh, colCall, colStage>>

ColCall(target, op, wasInitialized, resp, threw) ==
    [target |-> target, op |-> op, wasInitialized |-> wasInitialized,
     again |-> colCall.target = target /\ colCall.op = op,
     resp |-> resp, threw |-> threw, stats |-> NoStats]
NoResponse == CpuFailure("none", 0)
NoColCall ==
    [target |-> "none", op |-> "none", wasInitialized |-> FALSE, again |-> FALSE,
     resp |-> NoResponse, threw |-> FALSE, stats |-> NoStats]
AfterInitialize(stage, mon) == IF stage = 0 /\ mon.initialized THEN 1 ELSE stage
AfterCleanup(stage) == IF stage = 1 THEN 2 ELSE stage

CollectorsIdle ==
    /\ cpu = NewCpuMonitor
    /\ disk = NewDiskMonitor
    /\ pdh = <<>>
    /\ colCall = NoColCall
    /\ colStage = [cpu |-> 0, disk |-> 0, cpuReady |-> FALSE, diskReady |-> FALSE]

\* The provider has no room for a further query: PdhOpenQuery reports an error.
QueriesExhausted == Len(pdh) >= MaxQueries

CpuInitialize ==
    \E fail \in CpuFailures :
        /\ cpu.initialized => fail = NoResponse
        /\ (~cpu.initialized /\ QueriesExhausted) => fail.step = "open"
        /\ LET r == cpuInitialize(cpu, pdh, fail)
           IN  /\ cpu' = r.mon
               /\ pdh' = r.pdh
               /\ colCall' = ColCall("cpu", "initialize", cpu.initialized, fail, r.threw)
               /\ colStage' = [colStage EXCEPT !.cpu = AfterInitialize(@, r.mon),
                                               !.cpuReady = ~r.threw]
        /\ UNCHANGED disk

CpuCleanup ==
    LET r == cpuCleanup(cpu, pdh)
    IN  /\ cpu' = r.mon
        /\ pdh' = r.pdh
        /\ colCall' = ColCall("cpu", "cleanup", cpu.initialized, NoResponse, r.threw)
        /\ colStage' = [colStage EXCEPT !.cpu = AfterCleanup(@), !.cpuReady = FALSE]
        /\ UNCHANGED disk

DiskInitialize ==
    \E resp \in DiskResponses :
        /\ disk.initialized => resp = NoDiskResponse
        /\ (~disk.initialized /\ QueriesExhausted) => ~resp.open
        /\ LET r == diskInitialize(disk, pdh, resp)
           IN  /\ disk' = r.mon
               /\ pdh' = r.pdh
               /\ colCall' = ColCall("disk", "initialize", disk.initialized, resp, r.threw)
               /\ colStage' = [colStage EXCEPT !.disk = AfterInitialize(@, r.mon),
                                               !.diskReady = ~r.threw]
        /\ UNCHANGED cpu

DiskCleanup ==
    LET r == diskCleanup(disk, pdh)
    IN  /\ disk' = r.mon
        /\ pdh' = r.pdh
        /\ colCall' = ColCall("disk", "cleanup", disk.initialized, NoResponse, r.threw)
        /\ colStage' = [colStage EXCEPT !.disk = AfterCleanup(@), !.diskReady = FALSE]
        /\ UNCHANGED cpu

\* ------------------------------------------------------ the sampling loop
\* Where singleShotMode goes after each of its steps.
singleShotNext_EmitBeforeSave(pc) ==
    CASE pc = "initialize" -> "load"
      [] pc = "load" -> "collect"
      [] pc = "collect" -> "emit"
      [] pc = "emit" -> "save"
      [] pc = "save" -> "cleanup"
      [] OTHER -> "done"

singleShotNext(pc) ==
    CASE pc = "initialize" -> "load"
      [] pc = "load" -> "collect"
      [] pc = "collect" -> "save"
      [] pc = "save" -> "emit"
      [] pc = "emit" -> "cleanup"
      [] OTHER -> "done"

continuousNext_SaveEachIteration(pc) ==
    CASE pc = "initialize" -> "load"
      [] pc = "load" -> "loopTest"
      [] pc = "collect" -> "emit"
      [] pc = "emit" -> "update"
      [] pc = "update" -> "save"
      [] pc = "save" -> "loopTest"
      [] OTHER -> "done"

\* Where continuousMode goes after each of its steps; the loop test goes to
\* "collect" or to "save" as g_continueMonitoring tells.
continuousNext(pc) ==
    CASE pc = "initialize" -> "load"
      [] pc = "load" -> "loopTest"
      [] pc = "collect" -> "emit"
      [] pc = "emit" -> "update"
      [] pc = "update" -> "loopTest"
      [] pc = "sleep" -> "loopTest"
      [] pc = "save" -> "cleanup"
      [] OTHER -> "done"

NextStep(options, pc) == IF options.continuous THEN continuousNext(pc) ELSE singleShotNext(pc)

Previous(metrics, timestamp) == [metrics |-> metrics, timestamp |-> timestamp]

NextPrevious_KeepBaseline(previous, metrics) == previous

\* previousMetrics = metrics; previousTimestamp = metrics.timestamp;
NextPrevious(previous, metrics) == Previous(metrics, metrics.timestamp)

FinalState_CurrentTick(previous) == [previous.metrics EXCEPT !.timestamp = previous.timestamp]

\* What continuousMode hands to save() after the loop.
FinalState(previous) == previous.metrics

\* ------------------------------------------------- inputs of the sampling loop
NameWifi == <<"w", "l", "a", "n">>
NameLoopback == <<"l", "o">>
OptionInputs ==
    {CliOptions(TRUE, TRUE, FALSE, TRUE, TRUE, <<>>, continuous) : continuous \in BOOLEAN}
    \cup {CliOptions(FALSE, TRUE, FALSE, FALSE, TRUE, NameEth, continuous) : continuous \in BOOLEAN}
\* Answers of the provider during the initialization of the collectors.
RunCpuFailures == {CpuFailure("none", 0), CpuFailure("core", 1)}
RunDiskResponses ==
    {DiskResponse(TRUE, <<PdhDiskC>>, <<0>>, 0, TRUE),
     DiskResponse(TRUE, <<PdhDiskC>>, <<0>>, 0, FALSE)}
\* Answers during one cycle: everything succeeds (with two states of the
\* interface table), or one family or two fail, or the frequency of the
\* clock cannot be read.
CpuOk == CpuSample(TRUE, Answer(TRUE, 50),
                   [i \in 1..NumberOfProcessors |-> Answer(TRUE, 50)],
                   Answer(TRUE, [i \in 1..NumberOfProcessors |-> 10]))
CpuFails == CpuSample(FALSE, Answer(FALSE, 0),
                      [i \in 1..NumberOfProcessors |-> Answer(FALSE, 0)], Answer(FALSE, <<>>))
MemoryOk == Answer(TRUE, [total |-> 10, avail |-> 5])
MemoryFails == Answer(FALSE, <<>>)
TableA == <<IfRow(NameLoopback, IfTypeLoopback, 1, 1), IfRow(NameEth, IfTypeEthernet, 10, 20)>>
TableB == <<IfRow(NameEth, IfTypeEthernet, 30, 20), IfRow(NameWifi, IfTypeEthernet, 1, 2)>>
NetworkFails == Answer(FALSE, <<>>)
DiskOk ==
    DiskAnswers(TRUE, [n \in {PdhDiskC, PdhDiskD, TotalInstance} |->
                          DiskValues(Answer(TRUE, 10), Answer(TRUE, 4), Answer(TRUE, 50))])
DiskFails == DiskAnswers(FALSE, DiskOk.values)
FrequencyOk == Answer(TRUE, 10)
FrequencyFails == Answer(FALSE, 0)
CycleInputs(tick) ==
    {Cycle(tick, FrequencyOk, CpuOk, MemoryOk, Answer(TRUE, TableA), DiskOk, 0),
     Cycle(tick, FrequencyOk, CpuOk, MemoryOk, Answer(TRUE, TableB), DiskOk, 0),
     Cycle(tick, FrequencyOk, CpuFails, MemoryOk, Answer(TRUE, TableB), DiskOk, 0),
     Cycle(tick, FrequencyOk, CpuOk, MemoryOk, NetworkFails, DiskOk, 0),
     Cycle(tick, FrequencyFails, CpuOk, MemoryOk, NetworkFails, DiskOk, 0),
     Cycle(tick, FrequencyOk, CpuOk, MemoryFails, Answer(TRUE, TableA), DiskFails, 0)}
TickSteps == {5, 10}
FirstTick == 10
\* What a read of the indeterminate timestamp member may yield.
IndeterminateValues == {0, MaxU}
\* State files found when a run starts: none, one a previous run wrote at
\* tick 7, one written before the tick counter started again.
SavedAt(timestamp) ==
    File(Concat(SaveLines(SystemMetrics(timestamp,
                                        Optional(TRUE, <<InterfaceStats(NameEth, 5, 6)>>),
                                        Optional(TRUE, <<DiskStats(NameDrive, 7, 8)>>)))))
RunFileInputs == {NoFile, SavedAt(7), SavedAt(MaxU - 5)}
RunSaveOutcomes == {"ok", "openFails", "writeFails"}

\* ------------------------------------- getCurrentStats() of the collectors
\* Answers of the provider to getCurrentStats(): the collection fails, the
\* total or the last core cannot be formatted, or every value is there, with
\* percentages below, inside and above the range and with or without the
\* frequencies.
PercentPairs == {<<0 - 5, 150>>, <<50, 100>>, <<150, 0 - 5>>}
CoreAnswers(first, others) ==
    [i \in 1..NumberOfProcessors |-> Answer(TRUE, IF i = 1 THEN first ELSE others)]
FrequencyAnswers ==
    {Answer(TRUE, [i \in 1..NumberOfProcessors |-> 10 * i]), Answer(FALSE, <<>>)}
CpuSampleInputs ==
    {CpuFails,
     CpuSample(TRUE, Answer(FALSE, 0), CoreAnswers(50, 50), Answer(FALSE, <<>>)),
     CpuSample(TRUE, Answer(TRUE, 50),
               [CoreAnswers(50, 50) EXCEPT ![NumberOfProcessors] = Answer(FALSE, 0)],
               Answer(FALSE, <<>>))}
    \cup {CpuSample(TRUE, Answer(TRUE, p[1]), CoreAnswers(p[2], p[1]), f) :
            p \in PercentPairs, f \in FrequencyAnswers}
BusyAnswers == {Answer(TRUE, 50), Answer(TRUE, 150), Answer(FALSE, 0)}
DiskAnswerInputs ==
    {DiskFails}
    \cup {DiskAnswers(TRUE, [n \in {PdhDiskC, PdhDiskD, TotalInstance} |->
                                DiskValues(Answer(TRUE, 10), Answer(TRUE, 4), busy)]) :
            busy \in BusyAnswers}

\* The query of a collector has been collected as often as the model follows.
CollectsExhausted(h) == h # 0 /\ pdh[h].collects >= MaxCollects

CpuGetCurrentStats ==
    \E resp \in CpuSampleInputs :
        /\ ~cpu.initialized => resp = CpuFails
        /\ ~CollectsExhausted(cpu.hQuery)
        /\ LET r == cpuGetCurrentStats(cpu, pdh, resp)
           IN  /\ cpu' = r.mon
               /\ pdh' = r.pdh
               /\ colCall' = [ColCall("cpu", "getCurrentStats", cpu.initialized, resp, r.threw)
                                EXCEPT !.stats = r.stats]
        /\ UNCHANGED <<disk, colStage>>

DiskGetCurrentStats ==
    \E resp \in DiskAnswerInputs :
        /\ ~disk.initialized => resp = DiskFails
        /\ ~CollectsExhausted(disk.hQuery)
        /\ LET r == diskGetCurrentStats(disk, pdh, resp)
           IN  /\ disk' = r.mon
               /\ pdh' = r.pdh
               /\ colCall' = [ColCall("disk", "getCurrentStats", disk.initialized, resp, r.threw)
                                EXCEPT !.stats = r.stats]
        /\ UNCHANGED <<cpu, colStage>>

\* ------------------------------------------------- state of the sampling loop
\* run    the invocation of singleShotMode or continuousMode: its options,
\*        the step it is at, which collectors it has allocated, its local
\*        variables, its exit code (-1 while it runs)
\* g_continueMonitoring  the flag the SIGINT handler clears
\* clock  the tick QueryPerformanceCounter returned last
\* hist   what the run has done: the steps in order, for every call of
\*        collectMetrics its arguments, the answers it got and its result,
\*        what was written to stdout, what was handed to save()
VARIABLES run, g_continueMonitoring, clock, hist

runVars == <<run, g_continueMonitoring, clock, hist>>

NoRun ==
    [options |-> CliOptions(FALSE, FALSE, FALSE, FALSE, FALSE, <<>>, FALSE),
     pc |-> "idle", cpuMonitor |-> FALSE, networkMonitor |-> FALSE, diskMonitor |-> FALSE,
     previous |-> Previous(NewSystemMetrics, 0), metrics |-> NewSystemMetrics,
     sampleCount |-> 0, exitCode |-> 0 - 1]
NoHist == [trace |-> <<>>, collected |-> <<>>, out |-> <<>>, saved |-> <<>>]
RunIdle ==
    /\ run = NoRun
    /\ g_continueMonitoring = TRUE
    /\ clock = FirstTick
    /\ hist = NoHist

Logged(event) == [hist EXCEPT !.trace = Append(@, event)]
Caught_GoesOn(r) == [r EXCEPT !.pc = NextStep(r.options, r.pc)]

\* The catch block of the mode function: [ERROR] on stderr, return 2.
Caught(r) == [r EXCEPT !.pc = "done", !.exitCode = 2]

\* main: the mode function is entered; continuousMode installs the handler.
Start ==
    \E options \in OptionInputs :
        /\ run.pc = "idle"
        /\ run' = [run EXCEPT !.options = options, !.pc = "initialize"]
        /\ UNCHANGED <<g_continueMonitoring, clock, hist>>
        /\ UNCHANGED <<stVars, colVars>>

Signal_Preemptive ==
    /\ run.options.continuous
    /\ run.pc \notin {"idle", "done"}
    /\ g_continueMonitoring
    /\ g_continueMonitoring' = FALSE
    /\ run' = IF run.pc \in {"collect", "emit", "update"} THEN [run EXCEPT !.pc = "save"] ELSE run
    /\ UNCHANGED <<clock, hist, stVars, colVars>>

\* SIGINT while continuousMode runs: signalHandler.
Signal ==
    /\ run.options.continuous
    /\ run.pc \notin {"idle", "done"}
    /\ g_continueMonitoring
    /\ g_continueMonitoring' = FALSE
    /\ UNCHANGED <<run, clock, hist, stVars, colVars>>

\* The collectors the options ask for are allocated and initialized, CPU,
\* network, disk in this order; the first exception ends the run.
InitMonitors ==
    \E fail \in RunCpuFailures, netOk \in BOOLEAN, resp \in RunDiskResponses :
        LET o == run.options
            wantDisk == o.showDiskSpace \/ o.showDiskIO
            rc == IF o.showCpu THEN cpuInitialize(NewCpuMonitor, pdh, fail)
                  ELSE Outcome(cpu, pdh, FALSE)
            netThrew == ~rc.threw /\ o.showNetwork /\ ~netOk
            rd == IF ~rc.threw /\ ~netThrew /\ wantDisk
                  THEN diskInitialize(NewDiskMonitor, rc.pdh, resp)
                  ELSE Outcome(disk, rc.pdh, FALSE)
            threw == rc.threw \/ netThrew \/ rd.threw
            r1 == [run EXCEPT !.cpuMonitor = o.showCpu,
                              !.networkMonitor = ~rc.threw /\ o.showNetwork,
                              !.diskMonitor = ~rc.threw /\ ~netThrew /\ wantDisk]
        IN  /\ run.pc = "initialize"
            /\ Len(pdh) + 2 <= MaxQueries
            /\ ~o.showCpu => fail = CpuFailure("none", 0)
            /\ ~o.showNetwork => netOk
            /\ ~wantDisk => resp = DiskResponse(TRUE, <<PdhDiskC>>, <<0>>, 0, TRUE)
            /\ cpu' = rc.mon
            /\ disk' = rd.mon
            /\ pdh' = rd.pdh
            /\ run' = IF threw THEN Caught(r1) ELSE [r1 EXCEPT !.pc = NextStep(o, "initialize")]
            /\ hist' = Logged(IF threw THEN "initialize failed" ELSE "initialize")
            /\ UNCHANGED <<g_continueMonitoring, clock, colCall, colStage, stVars>>

\* stateManager.load(previousMetrics, previousTimestamp); on a miss the
\* current tick becomes the baseline.
LoadState ==
    \E canOpen \in BOOLEAN, step \in TickSteps, tickOk \in BOOLEAN :
        /\ run.pc = "load"
        /\ Load(canOpen, [metrics |-> NewSystemMetrics, timestamp |-> 0])
        /\ LET out == loadOut'
               tick == (clock + step) % U64
           IN  IF out.found
               THEN /\ step = 5 /\ tickOk
                    /\ run' = [run EXCEPT !.previous = Previous(out.metrics, out.timestamp),
                                          !.pc = NextStep(run.options, "load")]
                    /\ hist' = Logged("load")
                    /\ clock' = clock
               ELSE IF tickOk
               THEN /\ run' = [run EXCEPT !.previous = Previous(out.metrics, tick),
                                          !.pc = NextStep(run.options, "load")]
                    /\ hist' = [hist EXCEPT !.trace = @ \o <<"load", "baseline">>]
                    /\ clock' = tick
               ELSE /\ step = 5
                    /\ run' = Caught(run)
                    /\ hist' = [hist EXCEPT !.trace = @ \o <<"load", "baseline failed">>]
                    /\ clock' = clock
        /\ UNCHANGED <<g_continueMonitoring, colVars>>

\* while (g_continueMonitoring)
LoopTest ==
    /\ run.pc = "loopTest"
    /\ g_continueMonitoring => run.sampleCount < MaxIterations
    /\ run' = [run EXCEPT !.pc = IF g_continueMonitoring THEN "collect" ELSE "save"]
    /\ UNCHANGED <<g_continueMonitoring, clock, hist, stVars, colVars>>

\* One call of collectMetrics.
Collect ==
    \E step \in TickSteps, tickOk \in BOOLEAN :
        \E env \in CycleInputs(Answer(tickOk, (clock + step) % U64)) :
            LET r == collectMetrics(run.options, run.cpuMonitor, run.networkMonitor,
                                    run.diskMonitor, cpu, disk, pdh,
                                    run.previous.metrics, run.previous.timestamp, env)
            IN  /\ run.pc = "collect"
                /\ ~tickOk => (step = 5 /\ env.network = NetworkFails /\ env.frequency.ok)
                /\ cpu' = r.cpu
                /\ disk' = r.disk
                /\ pdh' = r.pdh
                /\ clock' = IF tickOk THEN env.tick.value ELSE clock
                /\ run' = IF r.threw THEN Caught(run)
                          ELSE [run EXCEPT !.metrics = r.metrics,
                                           !.pc = NextStep(run.options, "collect")]
                /\ hist' = IF r.threw THEN Logged("collect failed")
                           ELSE [hist EXCEPT
                                   !.trace = Append(@, "collect"),
                                   !.collected = Append(@, [previous |-> run.previous,
                                                            elapsedSeconds |-> r.elapsedSeconds,
                                                            cpu |-> env.cpu.collect,
                                                            memory |-> env.memory.ok,
                                                            network |-> env.network.ok,
                                                            disk |-> env.disk.collect,
                                                            metrics |-> r.metrics])]
                /\ UNCHANGED <<g_continueMonitoring, colCall, colStage, stVars>>

\* The formatted SystemMetrics goes to stdout.
Emit ==
    /\ run.pc = "emit"
    /\ run' = [run EXCEPT !.pc = NextStep(run.options, "emit")]
    /\ hist' = [hist EXCEPT !.trace = Append(@, "emit"), !.out = Append(@, run.metrics)]
    /\ UNCHANGED <<g_continueMonitoring, clock, stVars, colVars>>

Sleeps_Always(flag) == TRUE

\* if (g_continueMonitoring) before the sleep at the end of an iteration.
Sleeps(flag) == flag

\* The end of an iteration of continuousMode: the sample becomes the
\* previous one, then the interval is slept if the flag is still set.
Update ==
    /\ run.pc = "update"
    /\ run' = [run EXCEPT !.previous = NextPrevious(run.previous, run.metrics),
                          !.sampleCount = @ + 1,
                          !.pc = IF Sleeps(g_continueMonitoring) THEN "sleep"
                                 ELSE NextStep(run.options, "update")]
    /\ UNCHANGED <<g_continueMonitoring, clock, hist, stVars, colVars>>

\* std::this_thread::sleep_for(interval) is over.
Sleep ==
    /\ run.pc = "sleep"
    /\ run' = [run EXCEPT !.pc = NextStep(run.options, "sleep")]
    /\ UNCHANGED <<g_continueMonitoring, clock, hist, stVars, colVars>>

AfterSave_ReturnChecked(r, ret) ==
    IF ret THEN [r EXCEPT !.pc = NextStep(r.options, "save")] ELSE Caught(r)

\* stateManager.save(...); is an expression statement: the value it returns
\* is dropped and the function goes on.
AfterSave(r, ret) == [r EXCEPT !.pc = NextStep(r.options, "save")]

\* stateManager.save(metrics) of singleShotMode, stateManager.save(
\* previousMetrics) of continuousMode; what save() returns is not looked at.
SaveState ==
    \E outcome \in RunSaveOutcomes, u \in IndeterminateValues :
        LET arg == IF run.options.continuous THEN FinalState(run.previous) ELSE run.metrics
            metrics == IF arg.timestamp = Indeterminate THEN [arg EXCEPT !.timestamp = u] ELSE arg
        IN  /\ run.pc = "save"
            /\ arg.timestamp # Indeterminate => u = 0
            /\ Save(metrics, outcome, 0)
            /\ run' = AfterSave(run, saveRet')
            /\ hist' = [hist EXCEPT !.trace = Append(@, "save"), !.saved = Append(@, metrics)]
            /\ UNCHANGED <<g_continueMonitoring, clock, colVars>>

\* cleanup() and delete of every collector that was allocated, return 0.
Cleanup ==
    LET rc == IF run.cpuMonitor THEN cpuCleanup(cpu, pdh) ELSE Outcome(cpu, pdh, FALSE)
        rd == IF run.diskMonitor THEN diskCleanup(disk, rc.pdh) ELSE Outcome(disk, rc.pdh, FALSE)
    IN  /\ run.pc = "cleanup"
        /\ cpu' = rc.mon
        /\ disk' = rd.mon
        /\ pdh' = rd.pdh
        /\ run' = [run EXCEPT !.pc = "done", !.exitCode = 0,
                              !.cpuMonitor = FALSE, !.networkMonitor = FALSE,
                              !.diskMonitor = FALSE]
        /\ hist' = Logged("release")
        /\ UNCHANGED <<g_continueMonitoring, clock, colCall, colStage, stVars>>

\* ------------------------------------------------------------------ TempMonitor
\* TempMonitor keeps one flag of its own, isInitialized_; what does the
\* work is behind pImpl_.  Impl::initialize() answers with an InitResult and
\* Impl::getCurrentStats() with a TempStats or nothing: the class compiled
\* without C++/CLI answers LIBRARY_MISSING and nothing, the one compiled
\* with it any of the answers below.
NewTempMonitor == [isInitialized |-> FALSE]
TempStats(maxCpuTempCelsius) == [maxCpuTempCelsius |-> maxCpuTempCelsius]
ImplInitResults == {"SUCCESS", "NO_SENSORS", "DRIVER_FAILED", "LIBRARY_MISSING"}
ImplStats == {NoValue, Optional(TRUE, TempStats(40)), Optional(TRUE, TempStats(90))}

tempInitialize_NoAdminCheck(t, admin, implResult) ==
    [mon |-> IF implResult = "SUCCESS" THEN [t EXCEPT !.isInitialized = TRUE] ELSE t,
     ret |-> implResult]

\* TempMonitor::initialize
tempInitialize(t, admin, implResult) ==
    IF ~admin THEN [mon |-> t, ret |-> "NO_ADMIN"]
    ELSE [mon |-> IF implResult = "SUCCESS" THEN [t EXCEPT !.isInitialized = TRUE] ELSE t,
          ret |-> implResult]

\* TempMonitor::getCurrentStats
tempGetCurrentStats(t, implStats) == IF ~t.isInitialized THEN NoValue ELSE implStats

tempCleanup_Nothing(t) == t

\* TempMonitor::cleanup
tempCleanup(t) == IF t.isInitialized THEN [t EXCEPT !.isInitialized = FALSE] ELSE t

\* temp       the TempMonitor
\* isAdmin    whether the process runs as administrator
\* tempTrace  the calls made on the monitor, in order: the operation, what
\*            it returned, whether the monitor was initialized before it
VARIABLES temp, isAdmin, tempTrace

tempVars == <<temp, isAdmin, tempTrace>>

TempCall(op, ret, stats) ==
    [op |-> op, ret |-> ret, stats |-> stats, wasInitialized |-> temp.isInitialized]
TempIdle == temp = NewTempMonitor /\ isAdmin = FALSE /\ tempTrace = <<>>

TempInitialize ==
    \E implResult \in ImplInitResults :
        LET r == tempInitialize(temp, isAdmin, implResult)
        IN  /\ Len(tempTrace) < MaxTempCalls
            /\ ~isAdmin => implResult = "LIBRARY_MISSING"
            /\ temp' = r.mon
            /\ tempTrace' = Append(tempTrace, TempCall("initialize", r.ret, NoValue))
            /\ UNCHANGED isAdmin

TempGetCurrentStats ==
    \E implStats \in ImplStats :
        /\ Len(tempTrace) < MaxTempCalls
        /\ ~temp.isInitialized => implStats = NoValue
        /\ tempTrace' = Append(tempTrace,
                               TempCall("getCurrentStats", "", tempGetCurrentStats(temp, implStats)))
        /\ UNCHANGED <<temp, isAdmin>>

TempCleanup ==
    /\ Len(tempTrace) < MaxTempCalls
    /\ temp' = tempCleanup(temp)
    /\ tempTrace' = Append(tempTrace, TempCall("cleanup", "", NoValue))
    /\ UNCHANGED isAdmin

\* ------------------------------------------- NetworkMonitor::selectPrimaryInterface
\* std::string::find(sub) != npos
Contains(str, sub) ==
    \E i \in 0..(Len(str) - Len(sub)) : SubSeq(str, i + 1, i + Len(sub)) = sub

StrEthernet == <<"E", "t", "h", "e", "r", "n", "e", "t">>
StrWiDashFi == <<"W", "i", "-", "F", "i">>
StrWiFi == <<"W", "i", "F", "i">>
StrWireless == <<"W", "i", "r", "e", "l", "e", "s", "s">>

Adapter(name, description, totalIn, totalOut) ==
    [name |-> name, description |-> description,
     totalInOctets |-> totalIn, totalOutOctets |-> totalOut]

\* The comparator's locals: total is a uint64_t sum.
total(a) == (a.totalInOctets + a.totalOutOctets) % U64
IsEthernet(a) == Contains(a.name, StrEthernet) \/ Contains(a.description, StrEthernet)
IsWifi(a) ==
    Contains(a.name, StrWiDashFi) \/ Contains(a.name, StrWiFi) \/ Contains(a.name, StrWireless)

TrafficLess_TotalsOnly(a, b) == total(a) < total(b)

\* The lambda handed to std::max_element: TRUE when a ranks below b.
TrafficLess(a, b) ==
    IF total(a) = total(b) /\ IsEthernet(a) /\ IsWifi(b) THEN FALSE
    ELSE IF total(a) = total(b) /\ IsEthernet(b) /\ IsWifi(a) THEN TRUE
    ELSE total(a) < total(b)

\* std::max_element: walks the range once and moves to an element when the
\* one held so far ranks below it.
RECURSIVE MaxElementFrom(_, _, _)
MaxElementFrom(list, largest, i) ==
    IF i > Len(list) THEN largest
    ELSE MaxElementFrom(list, IF TrafficLess(list[largest], list[i]) THEN i ELSE largest, i + 1)
MaxElement(list) == MaxElementFrom(list, 1, 2)

selectPrimaryInterface(list) ==
    IF list = <<>> THEN <<>> ELSE list[MaxElement(list)].name

\* The adapters a list is made of: an Ethernet adapter by name, one by
\* description only, two Wi-Fi adapters, one that is neither, each with little
\* traffic, more traffic, or counters whose sum passes 2^WordBits.
NameEthernet == StrEthernet \o <<" ", "2">>
NameLan == <<"L", "A", "N">>
NameVpn == <<"V", "P", "N">>
DescIntelEthernet == <<"I", "n", "t", "e", "l", " ">> \o StrEthernet
AdapterKinds ==
    {<<NameEthernet, <<>>>>, <<NameLan, DescIntelEthernet>>, <<StrWiDashFi, StrWireless>>,
     <<StrWiFi \o <<" ", "5">>, <<>>>>, <<NameVpn, <<>>>>}
AdapterTraffic == {<<1, 1>>, <<3, 1>>, <<MaxU, 1>>}
Adapters == {Adapter(k[1], k[2], t[1], t[2]) : k \in AdapterKinds, t \in AdapterTraffic}
AdapterLists ==
    UNION {[1..n -> Adapters] : n \in 0..MaxAdapters}

\* interfaces  the list handed to selectPrimaryInterface
\* primary     what the call returned, once it was made
VARIABLES interfaces, primary

selVars == <<interfaces, primary>>

SelectIdle == interfaces = <<>> /\ primary = NoValue

CallSelectPrimaryInterface ==
    /\ ~primary.has
    /\ primary' = Optional(TRUE, selectPrimaryInterface(interfaces))
    /\ UNCHANGED interfaces

\* ------------------------------------- two processes on one state file
\* getStatePath() depends on the application name alone, so two processes
\* of the tool work on the same file.  save() of one of them, step by step:
\* the std::ofstream constructor truncates the file, the stream buffer hands
\* what was streamed so far to the file whenever it is full (at any
\* character), close() hands over the rest.  Nothing keeps the other
\* process from opening and reading the file in between.
SharedSnapshots ==
    {SystemMetrics(7, Optional(TRUE, <<InterfaceStats(NameEth, 25, 6)>>), NoValue),
     SystemMetrics(9, Optional(TRUE, <<InterfaceStats(NameEth, 5, 6)>>),
                   Optional(TRUE, <<DiskStats(NameDrive, 7, 8)>>))}

\* The characters save(metrics) streams, and the file once `written` of
\* them have reached it.
SaveStream(metrics) == Concat(SaveLines(metrics))
FileAfter(metrics, written) == File(SubSeq(SaveStream(metrics), 1, written))

\* writer  the save() in progress in the first process: whether there is
\*         one, its argument, how many characters have reached the file;
\*         and the number of save() and load() calls begun so far
VARIABLES writer

shVars == <<writer>>

NoWriter == [active |-> FALSE, metrics |-> DefaultMetrics, written |-> 0, saves |-> 0, loads |-> 0]
SharedIdle == writer = NoWriter

\* std::ofstream file(statePath, std::ios::trunc)
SharedSaveOpen ==
    \E metrics \in SharedSnapshots :
        /\ ~writer.active
        /\ writer.saves < MaxSharedCalls
        /\ writer' = [writer EXCEPT !.active = TRUE, !.metrics = metrics, !.written = 0,
                                    !.saves = @ + 1]
        /\ file' = File(<<>>)
        /\ stCall' = "save"
        /\ UNCHANGED <<loadIn, loadOut, saveRet, persisted, lastGood>>

\* The stream buffer overflows into the file while save() streams its lines.
SharedSaveFlush ==
    \E written \in (writer.written + 1)..(Len(SaveStream(writer.metrics)) - 1) :
        /\ writer.active
        /\ writer' = [writer EXCEPT !.written = written]
        /\ file' = FileAfter(writer.metrics, written)
        /\ UNCHANGED <<stCall, loadIn, loadOut, saveRet, persisted, lastGood>>

\* file.close(); return file.good();
SharedSaveClose ==
    /\ writer.active
    /\ writer' = [writer EXCEPT !.active = FALSE, !.written = Len(SaveStream(writer.metrics))]
    /\ file' = File(SaveStream(writer.metrics))
    /\ saveRet' = TRUE
    /\ persisted' = [has |-> TRUE, metrics |-> writer.metrics]
    /\ lastGood' = [count |-> Min(lastGood.count + 1, 2), timestamp |-> writer.metrics.timestamp]
    /\ UNCHANGED <<stCall, loadIn, loadOut>>

\* load() of the second process, from the open to the last getline.
SharedLoad ==
    /\ writer.loads < MaxSharedCalls
    /\ Load(TRUE, [metrics |-> DefaultMetrics, timestamp |-> 0])
    /\ writer' = [writer EXCEPT !.loads = @ + 1]

vars == <<dcVars, stVars, colVars, runVars, tempVars, selVars, shVars>>

InitDelta == InitDeltaInputs /\ file = NoFile /\ StoreIdle /\ CollectorsIdle /\ RunIdle /\ TempIdle /\ SelectIdle /\ SharedIdle

NextDelta ==
    \/ CallCalculateRate /\ UNCHANGED <<stVars, colVars, runVars, tempVars, selVars, shVars>>
    \/ CallCalculateElapsedSeconds /\ UNCHANGED <<stVars, colVars, runVars, tempVars, selVars, shVars>>

SpecDelta == InitDelta /\ [][NextDelta]_vars

InitState == DeltaIdle /\ file \in FileInputs /\ StoreIdle /\ CollectorsIdle /\ RunIdle /\ TempIdle /\ SelectIdle /\ SharedIdle

NextState ==
    \/ LoadCall /\ UNCHANGED <<dcVars, colVars, runVars, tempVars, selVars, shVars>>
    \/ SaveSucceeds /\ UNCHANGED <<dcVars, colVars, runVars, tempVars, selVars, shVars>>
    \/ SaveOpenFails /\ UNCHANGED <<dcVars, colVars, runVars, tempVars, selVars, shVars>>
    \/ SaveWriteFails /\ UNCHANGED <<dcVars, colVars, runVars, tempVars, selVars, shVars>>

SpecState == InitState /\ [][NextState]_vars

InitCollectors == DeltaIdle /\ file = NoFile /\ StoreIdle /\ CollectorsIdle /\ RunIdle /\ TempIdle /\ SelectIdle /\ SharedIdle

NextCollectors ==
    \/ CpuInitialize /\ UNCHANGED <<dcVars, stVars, runVars, tempVars, selVars, shVars>>
    \/ CpuCleanup /\ UNCHANGED <<dcVars, stVars, runVars, tempVars, selVars, shVars>>
    \/ DiskInitialize /\ UNCHANGED <<dcVars, stVars, runVars, tempVars, selVars, shVars>>
    \/ DiskCleanup /\ UNCHANGED <<dcVars, stVars, runVars, tempVars, selVars, shVars>>
    \/ CpuGetCurrentStats /\ UNCHANGED <<dcVars, stVars, runVars, tempVars, selVars, shVars>>
    \/ DiskGetCurrentStats /\ UNCHANGED <<dcVars, stVars, runVars, tempVars, selVars, shVars>>

SpecCollectors == InitCollectors /\ [][NextCollectors]_vars

InitRun == DeltaIdle /\ file \in RunFileInputs /\ StoreIdle /\ CollectorsIdle /\ RunIdle /\ TempIdle /\ SelectIdle /\ SharedIdle

NextRun ==
    \/ Start /\ UNCHANGED <<dcVars, tempVars, selVars, shVars>>
    \/ Signal /\ UNCHANGED <<dcVars, tempVars, selVars, shVars>>
    \/ InitMonitors /\ UNCHANGED <<dcVars, tempVars, selVars, shVars>>
    \/ LoadState /\ UNCHANGED <<dcVars, tempVars, selVars, shVars>>
    \/ LoopTest /\ UNCHANGED <<dcVars, tempVars, selVars, shVars>>
    \/ Collect /\ UNCHANGED <<dcVars, tempVars, selVars, shVars>>
    \/ Emit /\ UNCHANGED <<dcVars, tempVars, selVars, shVars>>
    \/ Update /\ UNCHANGED <<dcVars, tempVars, selVars, shVars>>
    \/ Sleep /\ UNCHANGED <<dcVars, tempVars, selVars, shVars>>
    \/ SaveState /\ UNCHANGED <<dcVars, tempVars, selVars, shVars>>
    \/ Cleanup /\ UNCHANGED <<dcVars, tempVars, selVars, shVars>>

SpecRun == InitRun /\ [][NextRun]_vars

\* The steps the thread of the mode function makes by itself: it is never
\* suspended for ever, and every call it makes returns or raises.
RunStep ==
    (InitMonitors \/ LoadState \/ LoopTest \/ Collect \/ Emit \/ Update \/ Sleep
        \/ SaveState \/ Cleanup)
    /\ UNCHANGED <<dcVars, tempVars, selVars, shVars>>

SpecRunFair == SpecRun /\ WF_vars(RunStep)

InitTemp ==
    /\ DeltaIdle /\ file = NoFile /\ StoreIdle /\ CollectorsIdle /\ RunIdle
    /\ temp = NewTempMonitor /\ isAdmin \in BOOLEAN /\ tempTrace = <<>>
    /\ SelectIdle /\ SharedIdle

NextTemp ==
    \/ TempInitialize /\ UNCHANGED <<dcVars, stVars, colVars, runVars, selVars, shVars>>
    \/ TempGetCurrentStats /\ UNCHANGED <<dcVars, stVars, colVars, runVars, selVars, shVars>>
    \/ TempCleanup /\ UNCHANGED <<dcVars, stVars, colVars, runVars, selVars, shVars>>

SpecTemp == InitTemp /\ [][NextTemp]_vars

InitSelect ==
    /\ DeltaIdle /\ file = NoFile /\ StoreIdle /\ CollectorsIdle /\ RunIdle /\ TempIdle
    /\ interfaces \in AdapterLists /\ primary = NoValue
    /\ SharedIdle

NextSelect ==
    \/ CallSelectPrimaryInterface /\ UNCHANGED <<dcVars, stVars, colVars, runVars, tempVars, shVars>>

SpecSelect == InitSelect /\ [][NextSelect]_vars

InitShared ==
    /\ DeltaIdle /\ file = NoFile /\ StoreIdle /\ CollectorsIdle /\ RunIdle /\ TempIdle
    /\ SelectIdle /\ SharedIdle

NextShared ==
    \/ SharedSaveOpen /\ UNCHANGED <<dcVars, colVars, runVars, tempVars, selVars>>
    \/ SharedSaveFlush /\ UNCHANGED <<dcVars, colVars, runVars, tempVars, selVars>>
    \/ SharedSaveClose /\ UNCHANGED <<dcVars, colVars, runVars, tempVars, selVars>>
    \/ SharedLoad /\ UNCHANGED <<dcVars, colVars, runVars, tempVars, selVars>>

SpecShared == InitShared /\ [][NextShared]_vars

\* ===================================================================== claims

\* C1: calculateRate returns exactly 0 whenever elapsedSeconds <= 0 or
\* current < previous, whatever the other arguments are, and is negative for
\* no input.
C1_RateZeroOnInvalid ==
    dcCall = "calculateRate" =>
        /\ (RatLeqZero(dcElapsed) \/ dcCurrent < dcPrevious) => RatIsZero(dcResult)
        /\ ~RatIsNegative(dcResult)

\* C1 witness: a rollover-like decrease over a positive elapsed time was
\* submitted and answered.
C1_Witness ==
    /\ dcCall = "calculateRate"
    /\ dcCurrent < dcPrevious
    /\ ~RatLeqZero(dcElapsed)
    /\ dcPrevious = MaxU

\* C2: for current >= previous and elapsedSeconds > 0, calculateRate returns
\* (current - previous) / elapsedSeconds, the difference being the
\* mathematical one converted to double: no wrap, no truncation, also for a
\* delta of half the counter range over one second.
C2_RateIsQuotient ==
    (dcCall = "calculateRate" /\ dcCurrent >= dcPrevious /\ ~RatLeqZero(dcElapsed)) =>
        /\ dcResult.den > 0
        /\ dcResult.num * dcElapsed.num = ToDouble(dcCurrent - dcPrevious) * dcElapsed.den * dcResult.den
        /\ (dcElapsed = Rat(1, 1) => RatEq(dcResult, Rat(ToDouble(dcCurrent - dcPrevious), 1)))

\* C2 witness: the large-counter case, a delta of half the range over 1 second.
C2_Witness ==
    /\ dcCall = "calculateRate"
    /\ dcCurrent = HalfMax
    /\ dcPrevious = 0
    /\ dcElapsed = Rat(1, 1)
    /\ dcResult.num > 0

\* C3: calculateElapsedSeconds returns 0 if currentTick < previousTick or
\* frequency = 0, otherwise (currentTick - previousTick) / frequency; it is
\* never negative.
C3_ElapsedSeconds ==
    dcCall = "calculateElapsedSeconds" =>
        /\ IF dcCurrent < dcPrevious \/ dcFrequency = 0
           THEN RatIsZero(dcResult)
           ELSE /\ dcResult.den > 0
                /\ RatEq(dcResult, Rat(ToDouble(dcCurrent - dcPrevious), ToDouble(dcFrequency)))
        /\ ~RatIsNegative(dcResult)

\* C3 witness: scenario C, half a second (5 ticks at 10 ticks per second).
C3_Witness ==
    /\ dcCall = "calculateElapsedSeconds"
    /\ dcCurrent = 5
    /\ dcPrevious = 0
    /\ dcFrequency = 10
    /\ RatEq(dcResult, Rat(1, 2))

\* ------------------------------------------------- the state file, as specified
\* What the format and the claims call well-formed, stated on the text alone.
IsDecimal(str) ==
    /\ str # <<>>
    /\ \A i \in 1..Len(str) : IsDigit(str[i])
    /\ Len(str) > 1 => str[1] # "0"
    /\ DigitsValue(str, 1, 0) <= MaxU
IsVersionTag(tag) ==
    \E p \in 1..Len(tag) :
        /\ tag[p] = "."
        /\ IsDecimal(SubSeq(tag, 1, p - 1))
        /\ IsDecimal(SubSeq(tag, p + 1, Len(tag)))
TagMajor(tag) ==
    LET p == CHOOSE q \in 1..Len(tag) : tag[q] = "." /\ IsDecimal(SubSeq(tag, 1, q - 1))
    IN  DigitsValue(SubSeq(tag, 1, p - 1), 1, 0)
IsVersionLine(line) ==
    /\ Len(line) >= Len(VersionKey)
    /\ SubSeq(line, 1, Len(VersionKey)) = VersionKey
IsCompatibleVersionLine(line) ==
    /\ IsVersionLine(line)
    /\ IsVersionTag(SubSeq(line, Len(VersionKey) + 1, Len(line)))
    /\ TagMajor(SubSeq(line, Len(VersionKey) + 1, Len(line))) = 1
IsTimestampLine(line) ==
    /\ Len(line) > Len(TimestampKey)
    /\ SubSeq(line, 1, Len(TimestampKey)) = TimestampKey
    /\ IsDecimal(SubSeq(line, Len(TimestampKey) + 1, Len(line)))
\* <key> <unsigned value>: a non-empty key, one space, an unsigned decimal.
IsDataLine(line) ==
    LET p == RFind(line, Space)
    IN  /\ p >= 1
        /\ IsDecimal(SubSeq(line, p + 2, Len(line)))
FileLines == GetLines(file.data)
HasGoodHeader ==
    /\ file.exists
    /\ Len(FileLines) >= 2
    /\ IsCompatibleVersionLine(FileLines[1])
    /\ IsTimestampLine(FileLines[2])
HasControlChar(name) == \E i \in 1..Len(name) : name[i] \in {Tab, Newline, CarriageReturn}
Replaced(name) ==
    [i \in 1..Len(name) |-> IF name[i] \in {Tab, Newline, CarriageReturn} THEN "_" ELSE name[i]]
Elements(opt) == IF opt.has THEN {opt.val[i] : i \in 1..Len(opt.val)} ELSE {}
LoadReturned == stCall = "load" /\ loadIn.canOpen

\* C4: round trip.  For a snapshot S whose device names hold no tab, CR or
\* LF, save(S) followed by load() returns found = true with S's timestamp
\* and, for every interface and disk of S under its original name, the same
\* cumulative counters.
C4_RoundTrip ==
    (/\ LoadReturned
     /\ persisted.has
     /\ \A n \in Elements(persisted.metrics.network) : ~HasControlChar(n.name)
     /\ \A d \in Elements(persisted.metrics.disks) : ~HasControlChar(d.deviceName)) =>
        /\ loadOut.found
        /\ loadOut.timestamp = persisted.metrics.timestamp
        /\ \A n \in Elements(persisted.metrics.network) : n \in Elements(loadOut.metrics.network)
        /\ \A d \in Elements(persisted.metrics.disks) : d \in Elements(loadOut.metrics.disks)

\* C5: load() returns found = false when no state file exists, the file is
\* empty, the first line is not a VERSION header, the declared version is
\* incompatible, or the second line is missing or is not a well-formed
\* TIMESTAMP <unsigned tick> line.
C5_LoadMiss ==
    (/\ stCall = "load"
     /\ \/ ~file.exists
        \/ file.data = <<>>
        \/ ~IsVersionLine(FileLines[1])
        \/ ~IsCompatibleVersionLine(FileLines[1])
        \/ Len(FileLines) < 2
        \/ ~IsTimestampLine(FileLines[2])) =>
        ~loadOut.found

\* C6: a data line after the two header lines that is not of the form
\* <key> <unsigned value> is skipped individually: load() returns
\* found = true and yields exactly what it yields on the file without those
\* lines, so the counters of the well-formed lines are loaded unchanged.
C6_MalformedSkipped ==
    (LoadReturned /\ HasGoodHeader) =>
        /\ loadOut.found
        /\ loadOut = load(FileOfLines(SubSeq(FileLines, 1, 2)
                                      \o SelectSeq(SubSeq(FileLines, 3, Len(FileLines)), IsDataLine)),
                          TRUE, loadIn.metrics, loadIn.timestamp)

\* C7: load() accepts a state file if and only if its VERSION tag has major
\* version 1, whatever the minor; a tag with any other major version (0.5,
\* 2.0, 10.0) yields found = false.
C7_VersionMajor ==
    (/\ LoadReturned
     /\ file.exists
     /\ Len(FileLines) >= 1
     /\ IsVersionLine(FileLines[1])
     /\ IsVersionTag(SubSeq(FileLines[1], Len(VersionKey) + 1, Len(FileLines[1])))) =>
        LET major == TagMajor(SubSeq(FileLines[1], Len(VersionKey) + 1, Len(FileLines[1])))
        IN  /\ major # 1 => ~loadOut.found
            /\ (Len(FileLines) >= 2 /\ IsTimestampLine(FileLines[2])) =>
                   (loadOut.found <=> major = 1)

\* C7 witness: a file tagged 10.0, otherwise well-formed, was offered to
\* load() and refused.
C7_Witness ==
    /\ LoadReturned
    /\ file = FileOfLines(<<VersionKey \o VersionTag(10, 0), GoodSecondLine>>)
    /\ ~loadOut.found

\* C8: save() fully overwrites.  After save(S1) then save(S2), load() into a
\* fresh structure returns S2's timestamp and only S2's devices and counters
\* (under their names as written): nothing else is returned.
C8_Overwrite ==
    (/\ LoadReturned
     /\ persisted.has
     /\ lastGood.count = 2
     /\ loadIn.metrics = DefaultMetrics) =>
        /\ loadOut.found
        /\ loadOut.timestamp = persisted.metrics.timestamp
        /\ \A n \in Elements(loadOut.metrics.network) :
              \E m \in Elements(persisted.metrics.network) :
                 n = [m EXCEPT !.name = Replaced(m.name)]
        /\ \A d \in Elements(loadOut.metrics.disks) :
              \E m \in Elements(persisted.metrics.disks) :
                 d = [m EXCEPT !.deviceName = Replaced(m.deviceName)]

\* C9: from a missing state file load() returns found = false; once a
\* save() has succeeded, every later load() returns found = true with the
\* timestamp of the most recent successful save.
C9_FoundAfterSave ==
    LoadReturned =>
        /\ ~file.exists => ~loadOut.found
        /\ lastGood.count >= 1 =>
              (loadOut.found /\ loadOut.timestamp = lastGood.timestamp)

\* C10: for device names holding tab, CR or LF, save() replaces each such
\* character by '_': the file holds the two header lines and exactly two
\* lines per device, and a following load() returns found = true with each
\* such device's counters under the replaced name.
C10_ControlCharsReplaced ==
    /\ persisted.has =>
          Len(FileLines) = 2 + 2 * (Cardinality(Elements(persisted.metrics.network))
                                    + Cardinality(Elements(persisted.metrics.disks)))
    /\ (LoadReturned /\ persisted.has) =>
          /\ loadOut.found
          /\ \A n \in Elements(persisted.metrics.network) :
                HasControlChar(n.name) =>
                    [n EXCEPT !.name = Replaced(n.name)] \in Elements(loadOut.metrics.network)
          /\ \A d \in Elements(persisted.metrics.disks) :
                HasControlChar(d.deviceName) =>
                    [d EXCEPT !.deviceName = Replaced(d.deviceName)] \in Elements(loadOut.metrics.disks)

\* C11: after save() then load() of a snapshot whose device names hold spaces
\* and quotes (Ethernet "Test" 2, 0 C: System), load() returns found = true
\* and each such device is present, with its counters, under its name with
\* every space replaced by an underscore and quotes and colons unchanged.
HasSpace(name) == \E i \in 1..Len(name) : name[i] = Space
SpacesReplaced(name) ==
    [i \in 1..Len(name) |-> IF name[i] \in {Space, Tab, Newline, CarriageReturn} THEN "_" ELSE name[i]]
C11_SpacesBecomeUnderscores ==
    (LoadReturned /\ persisted.has) =>
        /\ loadOut.found
        /\ \A n \in Elements(persisted.metrics.network) :
              HasSpace(n.name) =>
                  [n EXCEPT !.name = SpacesReplaced(n.name)] \in Elements(loadOut.metrics.network)
        /\ \A d \in Elements(persisted.metrics.disks) :
              HasSpace(d.deviceName) =>
                  [d EXCEPT !.deviceName = SpacesReplaced(d.deviceName)] \in Elements(loadOut.metrics.disks)

\* ------------------------------------------------ the collectors, as specified
\* What a collector holds and what the provider holds for it, without the
\* values of the handles: the counters the collector keeps, the counters
\* registered in its query, the collections made on it, the number of queries
\* it has open, and the handles it keeps that belong to no open query of its.
Path(counter) == [inst |-> counter.inst, kind |-> counter.kind]
CpuHeld(c) == ({c.hCpuTotal} \cup {c.hCpuCores[i] : i \in 1..Len(c.hCpuCores)}) \ {NullCounter}
DiskHeld(d) ==
    UNION {{d.counters[n].bytesRead, d.counters[n].bytesWritten, d.counters[n].percentBusy} :
              n \in DOMAIN d.counters}
Registered(os, h) == IF h = 0 THEN {} ELSE os[h].counters
Stale(held, os, h) == {k \in held : k.query # h \/ k \notin Registered(os, h)}
CpuView(c, os) ==
    [initialized |-> c.initialized,
     coreCount |-> c.coreCount,
     held |-> {Path(k) : k \in CpuHeld(c)},
     registered |-> {Path(k) : k \in Registered(os, c.hQuery)},
     collects |-> IF c.hQuery = 0 THEN 0 ELSE os[c.hQuery].collects,
     queries |-> Cardinality(OpenQueries(os, "cpu")),
     stale |-> {Path(k) : k \in Stale(CpuHeld(c), os, c.hQuery)}]
DiskView(d, os) ==
    [initialized |-> d.initialized,
     instances |-> DOMAIN d.counters,
     held |-> {Path(k) : k \in DiskHeld(d)},
     registered |-> {Path(k) : k \in Registered(os, d.hQuery)},
     collects |-> IF d.hQuery = 0 THEN 0 ELSE os[d.hQuery].collects,
     queries |-> Cardinality(OpenQueries(os, "disk")),
     stale |-> {Path(k) : k \in Stale(DiskHeld(d), os, d.hQuery)}]
\* UNINITIALIZED: no open query, no registered counters, initialized = false.
CpuUninitialized ==
    /\ cpu.hQuery = 0
    /\ CpuHeld(cpu) = {}
    /\ cpu.hCpuCores = <<>>
    /\ ~cpu.initialized
    /\ OpenQueries(pdh, "cpu") = {}
DiskUninitialized ==
    /\ disk.hQuery = 0
    /\ DOMAIN disk.counters = {}
    /\ ~disk.initialized
    /\ OpenQueries(pdh, "disk") = {}
Called(target, op) == colCall.target = target /\ colCall.op = op

\* C12: cleanup() of the CPU and of the Disk collector is idempotent: called
\* once or several times in a row, before or after initialize(), it does not
\* raise and leaves the collector in the one UNINITIALIZED state (no open
\* query, no registered counters, initialized = false), the state of a
\* collector just constructed.
C12_CleanupIdempotent ==
    /\ Called("cpu", "cleanup") =>
          (~colCall.threw /\ CpuUninitialized /\ cpu = NewCpuMonitor)
    /\ Called("disk", "cleanup") =>
          (~colCall.threw /\ DiskUninitialized /\ disk = NewDiskMonitor)

\* C12 witness: cleanup() was called a second time in a row on a CPU
\* collector that had been initialized.
C12_Witness ==
    /\ Called("cpu", "cleanup")
    /\ colCall.again
    /\ colStage.cpu = 2

\* C13: an initialize() that succeeds after cleanup() leaves the collector
\* as a first-time initialize() with the same answers of the provider leaves
\* a new collector: one open query, the same registered counters, one
\* baseline collection, no handle or counter from before the cleanup.
C13_ReinitializeAsFirstTime ==
    /\ (Called("cpu", "initialize") /\ ~colCall.wasInitialized /\ ~colCall.threw) =>
          LET first == cpuInitialize(NewCpuMonitor, <<>>, colCall.resp)
          IN  /\ CpuView(cpu, pdh) = CpuView(first.mon, first.pdh)
              /\ OpenQueries(pdh, "cpu") = {cpu.hQuery}
              /\ pdh[cpu.hQuery].collects = 1
              /\ Stale(CpuHeld(cpu), pdh, cpu.hQuery) = {}
    /\ (Called("disk", "initialize") /\ ~colCall.wasInitialized /\ ~colCall.threw) =>
          LET first == diskInitialize(NewDiskMonitor, <<>>, colCall.resp)
          IN  /\ DiskView(disk, pdh) = DiskView(first.mon, first.pdh)
              /\ OpenQueries(pdh, "disk") = {disk.hQuery}
              /\ pdh[disk.hQuery].collects = 1
              /\ Stale(DiskHeld(disk), pdh, disk.hQuery) = {}

\* C13 witness: the Disk collector was initialized, cleaned up and
\* initialized again, this time with fewer disk instances than counters it
\* could have kept.
C13_Witness ==
    /\ Called("disk", "initialize")
    /\ ~colCall.wasInitialized
    /\ ~colCall.threw
    /\ colStage.disk = 2
    /\ colCall.resp.instances = <<>>

\* C14: when initialize() of a collector leaves by an exception (the query
\* did not open, a counter could not be registered, the baseline collection
\* failed), the collector has no query handle, holds no counter, is
\* UNINITIALIZED, and the provider has no open query of its.
C14_FailedInitializeReleases ==
    /\ (Called("cpu", "initialize") /\ colCall.threw) => CpuUninitialized
    /\ (Called("disk", "initialize") /\ colCall.threw) => DiskUninitialized

\* C14 witness: registering the counter of the second core failed, after the
\* query was open and two counters were registered.
C14_Witness ==
    /\ Called("cpu", "initialize")
    /\ colCall.threw
    /\ colCall.resp = CpuFailure("core", 1)

\* C15: initialize() on an initialized CPU or Disk collector is a no-op: the
\* collector and the provider are as before, so no second query is opened,
\* no counter registered, no collection made.
C15_InitializeIdempotent ==
    [][(colCall'.op = "initialize" /\ colCall'.wasInitialized) =>
          (cpu' = cpu /\ disk' = disk /\ pdh' = pdh /\ ~colCall'.threw)]_vars

\* C15 witness: initialize() was called on an initialized Disk collector.
C15_Witness ==
    /\ Called("disk", "initialize")
    /\ colCall.wasInitialized
    /\ disk.initialized

\* ---------------------------------------------- the sampling loop, as specified
Count(seq, e) == Cardinality({i \in 1..Len(seq) : seq[i] = e})
IsPrefix(a, b) == Len(a) <= Len(b) /\ a = SubSeq(b, 1, Len(a))
Last(seq) == seq[Len(seq)]
WantsDisk(o) == o.showDiskSpace \/ o.showDiskIO

\* C16: within one sampling cycle a failure while fetching one family (CPU,
\* memory, network, disk) leaves that family, and only that family, absent
\* from the Snapshot: every requested family whose fetch succeeded is in the
\* Snapshot the cycle produced, and the cycle did produce one.
C16_FamiliesIndependent ==
    /\ Count(hist.trace, "collect") = Len(hist.collected)
    /\ \A i \in 1..Len(hist.collected) :
          LET e == hist.collected[i]
              m == e.metrics
              o == run.options
          IN  /\ m.cpu.has <=> (o.showCpu /\ e.cpu)
              /\ m.memory.has <=> (o.showMemory /\ e.memory)
              /\ m.disks.has <=> (WantsDisk(o) /\ e.disk)
              /\ m.network.has => (o.showNetwork /\ e.network)
              /\ (o.showNetwork /\ e.network /\ o.networkInterface = <<>>) => m.network.has
              /\ (m.network.has /\ o.networkInterface # <<>>) =>
                    (Len(m.network.val) = 1 /\ m.network.val[1].name = o.networkInterface)

\* C16 witness: the CPU fetch failed in a cycle that still collected memory,
\* network and disks.
C16_Witness ==
    \E i \in 1..Len(hist.collected) :
        LET e == hist.collected[i]
        IN  /\ run.options.showCpu
            /\ ~e.cpu
            /\ ~e.metrics.cpu.has
            /\ e.metrics.memory.has
            /\ e.metrics.network.has
            /\ e.metrics.disks.has

\* C17: in one-shot mode the steps happen in this order, each once:
\* collectors initialized, prior Snapshot loaded (on a load miss a baseline is
\* made of the current tick), one Snapshot collected against that baseline,
\* saved, output emitted, collectors released; a run that returns 0 has made
\* all of them, and the file is written before anything is emitted.
OneShotSteps(cold) ==
    <<"initialize", "load">> \o (IF cold THEN <<"baseline">> ELSE <<>>)
    \o <<"collect", "save", "emit", "release">>
C17_OneShotOrder ==
    (run.pc # "idle" /\ ~run.options.continuous) =>
        /\ \/ \E cold \in BOOLEAN : IsPrefix(hist.trace, OneShotSteps(cold))
           \/ (run.exitCode = 2 /\ hist.trace # <<>>
               /\ \E cold \in BOOLEAN :
                     IsPrefix(SubSeq(hist.trace, 1, Len(hist.trace) - 1), OneShotSteps(cold))
               /\ Last(hist.trace) \in {"initialize failed", "baseline failed", "collect failed"})
        /\ run.exitCode = 0 => \E cold \in BOOLEAN : hist.trace = OneShotSteps(cold)
        /\ hist.out # <<>> => (hist.saved # <<>> /\ hist.out = <<hist.saved[1]>>)
        /\ Len(hist.collected) <= 1
        /\ run.pc = "collect" =>
              /\ loadOut.found =>
                    (run.previous = Previous(loadOut.metrics, loadOut.timestamp)
                     /\ Count(hist.trace, "baseline") = 0)
              /\ ~loadOut.found =>
                    (run.previous = Previous(NewSystemMetrics, clock)
                     /\ Count(hist.trace, "baseline") = 1)
        /\ hist.collected # <<>> =>
              (hist.collected[1].previous = run.previous
               /\ (hist.saved # <<>> => hist.saved[1] = hist.collected[1].metrics))

\* C17 witness: a one-shot run on a cold start went through all its steps.
C17_Witness ==
    /\ ~run.options.continuous
    /\ run.exitCode = 0
    /\ hist.trace = OneShotSteps(TRUE)

\* C18: in a run of either mode load() is called at most once and save() at
\* most once; while continuousMode iterates, the only call made on the state
\* store is the load() before the loop.
C18_OneLoadOneSave ==
    /\ Count(hist.trace, "load") <= 1
    /\ Count(hist.trace, "save") <= 1
    /\ Len(hist.saved) = Count(hist.trace, "save")
    /\ (run.options.continuous /\ run.pc \in {"loopTest", "collect", "emit", "update", "sleep"}) =>
          (stCall = "load" /\ Count(hist.trace, "save") = 0 /\ Count(hist.trace, "load") = 1)

\* C18 witness: continuousMode has returned after two iterations.
C18_Witness ==
    /\ run.options.continuous
    /\ run.pc = "done"
    /\ run.exitCode = 0
    /\ Len(hist.collected) = 2

\* C19: in continuous mode iteration k >= 2 takes as its previous Snapshot
\* the one iteration k-1 produced, with that Snapshot's timestamp, and the
\* rates it reports are the increase of the counters since that Snapshot
\* over the time since that Snapshot (0 for an interface that Snapshot does
\* not hold); iteration 1 takes the loaded or synthesized baseline.
ExpectedRate(cur, prev, ticks, frequency) ==
    IF ticks <= 0 \/ cur < prev THEN 0 ELSE ((cur - prev) * frequency) \div ticks
C19_SlidingWindow ==
    run.options.continuous =>
        \A k \in 2..Len(hist.collected) :
            LET before == hist.collected[k - 1].metrics
                e == hist.collected[k]
                ticks == e.metrics.timestamp - before.timestamp
            IN  /\ e.previous = Previous(before, before.timestamp)
                /\ e.metrics.network.has =>
                      \A i \in 1..Len(e.metrics.network.val) :
                          LET n == e.metrics.network.val[i]
                              j == IF before.network.has
                                   THEN FindByName(before.network.val, n.name) ELSE 0
                          IN  IF j = 0
                              THEN n.inBytesPerSec = 0 /\ n.outBytesPerSec = 0
                              ELSE /\ n.inBytesPerSec =
                                        ExpectedRate(n.totalInOctets,
                                                     before.network.val[j].totalInOctets,
                                                     ticks, FrequencyOk.value)
                                   /\ n.outBytesPerSec =
                                        ExpectedRate(n.totalOutOctets,
                                                     before.network.val[j].totalOutOctets,
                                                     ticks, FrequencyOk.value)

\* C19 witness: the second iteration reported a rate for an interface whose
\* counter had grown since the first iteration.
C19_Witness ==
    /\ run.options.continuous
    /\ Len(hist.collected) = 2
    /\ hist.collected[1].metrics.network.has
    /\ hist.collected[2].metrics.network.has
    /\ \E i \in 1..Len(hist.collected[2].metrics.network.val) :
          /\ hist.collected[2].metrics.network.val[i].name = NameEth
          /\ hist.collected[2].metrics.network.val[i].inBytesPerSec > 0

\* C20: when continuousMode leaves its loop on cancellation it hands to
\* save() the last in-memory Snapshot, whenever the cancellation arrived: the
\* timestamp and the counters of the last Snapshot the loop produced or, if
\* it produced none, of the baseline it holds.
C20_FinalStatePersisted ==
    (run.options.continuous /\ hist.saved # <<>>) =>
        LET arg == hist.saved[1]
        IN  /\ arg.timestamp = run.previous.timestamp
            /\ arg.network = run.previous.metrics.network
            /\ arg.disks = run.previous.metrics.disks
            /\ hist.collected # <<>> => arg = Last(hist.collected).metrics
            /\ saveRet => (file = File(Concat(SaveLines(arg))))

\* C21: cancellation is cooperative.  The signal handler changes nothing
\* but the flag; continuousMode leaves its loop for the final save only at
\* the loop test, with the flag cleared; an iteration the signal arrived in
\* goes on as any other (after the collection the emission of that Snapshot,
\* then the update, then the loop test); and every Snapshot collected is
\* emitted: at most the one of the iteration in flight is still to be
\* written, and none once the loop is left.
InLoop == run.options.continuous /\ run.pc \in {"collect", "emit", "update"}
Emitted ==
    /\ Len(hist.out) = Len(hist.collected) - (IF run.pc = "emit" THEN 1 ELSE 0)
    /\ \A i \in 1..Len(hist.out) : hist.out[i] = hist.collected[i].metrics
LoopEntered ==
    /\ run.options.continuous
    /\ Count(hist.trace, "load") = 1
    /\ Count(hist.trace, "baseline failed") = 0
    /\ run.pc # "load"
C22_FailedCycleContinues ==
    (LoopEntered /\ run.pc = "done") =>
        /\ ~g_continueMonitoring
        /\ run.exitCode = 0
        /\ Count(hist.trace, "save") = 1

\* C23: a failure of the state store does not end the run.  When load()
\* returns false the run goes on from the cold-start baseline (a Snapshot
\* without devices, the current tick as its timestamp; only a failure of
\* the clock read for that tick ends it); when save() returns false the run
\* goes on as after a successful save: the one-shot cycle writes its output,
\* and the run returns 0.
LoadMissed == Count(hist.trace, "load") = 1 /\ stCall = "load" /\ ~loadOut.found
SaveFailed == Count(hist.trace, "save") = 1 /\ stCall = "save" /\ ~saveRet
BaselineOf(e, name) ==
    IF e.previous.metrics.network.has
    THEN FindByName(e.previous.metrics.network.val, name) ELSE 0
EngineRate(e, cur, prev) ==
    CastU64(calculateRate(cur, prev,
                          calculateElapsedSeconds(e.metrics.timestamp, e.previous.timestamp,
                                                  FrequencyOk.value)), 0)
C24_NoBaselineNoRate ==
    \A c \in 1..Len(hist.collected) :
        LET e == hist.collected[c]
        IN  e.metrics.network.has =>
                \A i \in 1..Len(e.metrics.network.val) :
                    LET n == e.metrics.network.val[i]
                        j == BaselineOf(e, n.name)
                    IN  IF j = 0
                        THEN n.inBytesPerSec = 0 /\ n.outBytesPerSec = 0
                        ELSE /\ n.inBytesPerSec =
                                  EngineRate(e, n.totalInOctets,
                                             e.previous.metrics.network.val[j].totalInOctets)
                             /\ n.outBytesPerSec =
                                  EngineRate(e, n.totalOutOctets,
                                             e.previous.metrics.network.val[j].totalOutOctets)

\* C24 witness: one cycle reported a rate above 0 for a device with a
\* baseline and the rate 0 for a device with traffic that the previous
\* Snapshot did not hold.
C24_Witness ==
    \E c \in 1..Len(hist.collected) :
        LET e == hist.collected[c]
        IN  /\ e.metrics.network.has
            /\ \E i, k \in 1..Len(e.metrics.network.val) :
                  /\ BaselineOf(e, e.metrics.network.val[i].name) # 0
                  /\ e.metrics.network.val[i].inBytesPerSec > 0
                  /\ BaselineOf(e, e.metrics.network.val[k].name) = 0
                  /\ e.metrics.network.val[k].totalInOctets > 0
                  /\ e.metrics.network.val[k].inBytesPerSec = 0

\* C24 witness on a cold start: the first Snapshot of a run that loaded
\* nothing holds devices with traffic, all with the rate 0.
C24_WitnessColdStart ==
    /\ hist.collected # <<>>
    /\ hist.collected[1].previous.metrics = NewSystemMetrics
    /\ hist.collected[1].metrics.network.has
    /\ hist.collected[1].metrics.network.val # <<>>
    /\ \A i \in 1..Len(hist.collected[1].metrics.network.val) :
          /\ hist.collected[1].metrics.network.val[i].totalInOctets > 0
          /\ hist.collected[1].metrics.network.val[i].inBytesPerSec = 0

\* C25: when the timestamp of the previous Snapshot (the one loaded from the
\* state file) is greater than the tick of the cycle, the elapsed time of
\* the cycle is 0 and not negative, every network rate reported is 0, and
\* the Snapshot of the cycle is saved all the same: a run that gets to its
\* save hands it the new Snapshot, and a save that succeeds leaves a state
\* file with the new, smaller timestamp in place of the stale one.
StaleBaseline(e) == e.previous.timestamp > e.metrics.timestamp
C25_ClockResetAcrossRuns ==
    \A c \in 1..Len(hist.collected) :
        LET e == hist.collected[c]
        IN  StaleBaseline(e) =>
              /\ e.elapsedSeconds.num = 0
              /\ e.elapsedSeconds.den > 0
              /\ e.metrics.network.has =>
                    \A i \in 1..Len(e.metrics.network.val) :
                        /\ e.metrics.network.val[i].inBytesPerSec = 0
                        /\ e.metrics.network.val[i].outBytesPerSec = 0
              /\ (~run.options.continuous /\ run.pc \in {"emit", "cleanup"}) => hist.saved # <<>>
              /\ run.exitCode = 0 => hist.saved # <<>>
              /\ hist.saved # <<>> =>
                    /\ hist.saved[1] = Last(hist.collected).metrics
                    /\ hist.saved[1].timestamp < e.previous.timestamp
                    /\ saveRet =>
                          /\ file = File(Concat(SaveLines(hist.saved[1])))
                          /\ load(file, TRUE, NewSystemMetrics, 0).timestamp
                                = Last(hist.collected).metrics.timestamp

\* C25 witness: a one-shot run loaded a Snapshot whose timestamp is past the
\* current tick and which holds a smaller counter of a device of the new
\* Snapshot; it has saved the new Snapshot.
C25_Witness ==
    /\ ~run.options.continuous
    /\ run.exitCode = 0
    /\ saveRet
    /\ hist.collected # <<>>
    /\ StaleBaseline(hist.collected[1])
    /\ hist.collected[1].metrics.network.has
    /\ \E i \in 1..Len(hist.collected[1].metrics.network.val) :
          LET n == hist.collected[1].metrics.network.val[i]
              j == BaselineOf(hist.collected[1], n.name)
          IN  /\ j # 0
              /\ n.totalInOctets > hist.collected[1].previous.metrics.network.val[j].totalInOctets

\* C26: when the clock fails during a one-shot cycle (the tick or the
\* frequency cannot be read, in collectMetrics or for the baseline of a load
\* miss), the cycle is aborted: the run ends with the error exit code 2,
\* nothing is written to the output, save() is not called and the state
\* file stays as the run found it.
ClockFailed == hist.trace # <<>> /\ Last(hist.trace) \in {"collect failed", "baseline failed"}
C26_ClockFailureAborts ==
    /\ (~run.options.continuous /\ ClockFailed) =>
          /\ run.pc = "done"
          /\ run.exitCode = 2
          /\ hist.out = <<>>
          /\ hist.saved = <<>>
          /\ hist.collected = <<>>
          /\ Count(hist.trace, "save") = 0
          /\ stCall = "load"
          /\ file \in RunFileInputs
    /\ (~run.options.continuous /\ run.pc # "idle" /\ Count(hist.trace, "save") = 0) =>
          (file \in RunFileInputs /\ hist.saved = <<>>)
    /\ (~run.options.continuous /\ hist.out # <<>>) => ~ClockFailed

\* C26 witness: the clock failed inside collectMetrics of a one-shot run
\* that had loaded the state file; the file is still there.
C26_Witness ==
    /\ ~run.options.continuous
    /\ hist.trace = <<"initialize", "load", "collect failed">>
    /\ run.exitCode = 2
    /\ file = SavedAt(7)

\* C27: within one run (the clock strictly increases between two reads)
\* the timestamps of the Snapshots the continuous loop produces strictly
\* increase, and each is greater than the timestamp of the cold-start
\* baseline made on a load miss.
ColdBaseline ==
    /\ Count(hist.trace, "baseline") = 1
    /\ hist.collected # <<>>
    /\ hist.collected[1].previous.metrics = NewSystemMetrics
C27_TimestampsIncrease ==
    run.options.continuous =>
        /\ \A k \in 2..Len(hist.collected) :
              hist.collected[k].metrics.timestamp > hist.collected[k - 1].metrics.timestamp
        /\ ColdBaseline =>
              \A k \in 1..Len(hist.collected) :
                  hist.collected[k].metrics.timestamp > hist.collected[1].previous.timestamp
        /\ hist.collected # <<>> => Last(hist.collected).metrics.timestamp <= clock
        /\ (run.pc = "loopTest" /\ hist.collected # <<>>) =>
              run.previous.timestamp = Last(hist.collected).metrics.timestamp

\* C27 witness: the loop has produced two Snapshots after a load miss.
C27_Witness ==
    /\ run.options.continuous
    /\ ColdBaseline
    /\ Len(hist.collected) = 2
    /\ hist.collected[1].previous.timestamp > FirstTick

\* ----------------------------------------------- getCurrentStats, as specified
\* C28: after any sequence of initialize(), cleanup() and getCurrentStats()
\* on the CPU or the disk collector, getCurrentStats() returns data only if
\* the collector is initialized, that is an initialize() has succeeded and
\* no cleanup() was called since; called on a collector that is not, it
\* raises an error and changes neither the collector nor the provider.
ReadyBefore(target) == IF target = "cpu" THEN colStage.cpuReady ELSE colStage.diskReady
C28_StatsOnlyWhenInitialized ==
    /\ [](/\ colStage.cpuReady = cpu.initialized
          /\ colStage.diskReady = disk.initialized
          /\ colCall.op = "getCurrentStats" =>
                /\ ~colCall.threw => (ReadyBefore(colCall.target) /\ colCall.stats # NoStats)
                /\ ~ReadyBefore(colCall.target) => (colCall.threw /\ colCall.stats = NoStats))
    /\ [][(colCall'.op = "getCurrentStats" /\ ~ReadyBefore(colCall'.target)) =>
             (colCall'.threw /\ cpu' = cpu /\ disk' = disk /\ pdh' = pdh
              /\ colStage' = colStage)]_vars

\* C28 witness: getCurrentStats() raised an error on a CPU collector that
\* had been initialized and then cleaned up.
C28_Witness ==
    /\ Called("cpu", "getCurrentStats")
    /\ colCall.threw
    /\ ~colStage.cpuReady
    /\ colStage.cpu = 2

\* C29: every CpuStats that CpuMonitor::getCurrentStats() returns has its
\* totalUsagePercent and the usagePercent of every core within [0, 100],
\* whatever the provider reported, and holds one entry per core with the
\* ids 0..n-1 in order.
InPercentRange(x) == 0 <= x /\ x <= 100
C30_DiskBusyInRange ==
    (Called("disk", "getCurrentStats") /\ ~colCall.threw) =>
        \A i \in 1..Len(colCall.stats) : InPercentRange(colCall.stats[i].percentBusy)

\* ------------------------------------------------------ TempMonitor, as specified
\* C31: in every state reached by initialize(), getCurrentStats() and
\* cleanup() calls on a TempMonitor, isInitialized() is true only if some
\* initialize() returned SUCCESS and no cleanup() was called since;
\* getCurrentStats() returns no value whenever isInitialized() is false;
\* initialize() without administrator privileges returns NO_ADMIN and leaves
\* the monitor uninitialized.
SucceededSinceCleanup(n) ==
    \E i \in 1..n :
        /\ tempTrace[i].op = "initialize"
        /\ tempTrace[i].ret = "SUCCESS"
        /\ \A j \in (i + 1)..n : tempTrace[j].op # "cleanup"
C31_TempInitialized ==
    /\ temp.isInitialized => SucceededSinceCleanup(Len(tempTrace))
    /\ \A k \in 1..Len(tempTrace) :
          LET call == tempTrace[k]
          IN  /\ call.wasInitialized => SucceededSinceCleanup(k - 1)
              /\ (call.op = "getCurrentStats" /\ ~call.wasInitialized) => ~call.stats.has
              /\ (call.op = "initialize" /\ ~isAdmin) => call.ret = "NO_ADMIN"
              /\ call.op = "initialize" => (call.ret = "NO_ADMIN" <=> ~isAdmin)
    /\ ~isAdmin => ~temp.isInitialized

\* C31 witness: an initialize() returned SUCCESS, getCurrentStats() returned
\* a value, and after cleanup() the monitor is uninitialized.
C31_Witness ==
    /\ Len(tempTrace) = 3
    /\ tempTrace[1].op = "initialize" /\ tempTrace[1].ret = "SUCCESS"
    /\ tempTrace[2].op = "getCurrentStats" /\ tempTrace[2].stats.has
    /\ tempTrace[3].op = "cleanup"
    /\ ~temp.isInitialized

\* C31 witness without administrator privileges: initialize() returned
\* NO_ADMIN and the getCurrentStats() after it returned nothing.
C31_WitnessNoAdmin ==
    /\ ~isAdmin
    /\ Len(tempTrace) >= 2
    /\ tempTrace[1].op = "initialize" /\ tempTrace[1].ret = "NO_ADMIN"
    /\ tempTrace[2].op = "getCurrentStats" /\ ~tempTrace[2].stats.has

\* The traffic of an adapter: the two counters added as numbers.
Traffic(a) == a.totalInOctets + a.totalOutOctets
Busiest(list, i) == \A j \in 1..Len(list) : Traffic(list[j]) <= Traffic(list[i])
\* Position i of the list is an answer the claim allows: a busiest adapter,
\* and no Wi-Fi adapter when an Ethernet adapter is as busy.
Preferred(list, i) ==
    /\ Busiest(list, i)
    /\ (IsWifi(list[i]) /\ ~IsEthernet(list[i])) =>
           \A j \in 1..Len(list) : Busiest(list, j) => ~IsEthernet(list[j])

\* C32: selectPrimaryInterface returns the empty string for an empty list and
\* otherwise the name of a listed interface whose totalInOctets +
\* totalOutOctets is the greatest of the list, an Ethernet one rather than a
\* Wi-Fi one when both are among the busiest, in whatever order they are listed.
C32_PrimaryIsBusiest ==
    primary.has =>
        IF interfaces = <<>> THEN primary.val = <<>>
        ELSE \E i \in 1..Len(interfaces) :
                 interfaces[i].name = primary.val /\ Preferred(interfaces, i)

\* The same with every sum of the list below 2^WordBits.
NoSumWraps == \A i \in 1..Len(interfaces) : Traffic(interfaces[i]) < U64
C32_PrimaryIsBusiestUnlessWrapped == NoSumWraps => C32_PrimaryIsBusiest

\* C33: every device (network interface or disk) of a snapshot that load()
\* returns is a device of the snapshot saved last, under its name as
\* written, and carries that device's saved counters: load() returns no
\* device that was not saved and no saved device with other (zeroed) counters.
C33_LoadedDevicesWereSaved ==
    (/\ LoadReturned
     /\ persisted.has
     /\ loadOut.found
     /\ loadIn.metrics = DefaultMetrics) =>
        /\ \A n \in Elements(loadOut.metrics.network) :
              \E m \in Elements(persisted.metrics.network) :
                 /\ n.name = Replaced(m.name)
                 /\ n.totalInOctets = m.totalInOctets
                 /\ n.totalOutOctets = m.totalOutOctets
        /\ \A d \in Elements(loadOut.metrics.disks) :
              \E m \in Elements(persisted.metrics.disks) :
                 /\ d.deviceName = Replaced(m.deviceName)
                 /\ d.totalBytesRead = m.totalBytesRead
                 /\ d.totalBytesWritten = m.totalBytesWritten

\* C34: on every exit path of singleShotMode and continuousMode, the paths
\* where an initialize(), a collection or the clock raises included, each
\* collector that was initialized has been cleaned up when the function
\* returns: no collector is left initialized and none of the provider
\* queries the run opened is left open.
C34_CollectorsReleasedOnExit ==
    run.pc = "done" =>
        /\ ~cpu.initialized
        /\ ~disk.initialized
        /\ \A h \in 1..Len(pdh) : ~pdh[h].open

\* The same for the returns with 0 alone.
C34_ReleasedOnNormalExit ==
    (run.pc = "done" /\ run.exitCode = 0) =>
        /\ ~cpu.initialized
        /\ ~disk.initialized
        /\ \A h \in 1..Len(pdh) : ~pdh[h].open

\* What load() returns from the file save(metrics) has written completely.
CompleteLoad(metrics) == load(File(SaveStream(metrics)), TRUE, DefaultMetrics, 0)

\* C35: when the save() of one process interleaves with the load() of
\* another process on the same state file, a load() that returns
\* found = true returns a complete snapshot: the one the last completed
\* save() wrote or the one the save() in progress is writing.
C35_LoadSeesCompleteSnapshot ==
    [][(writer'.loads # writer.loads /\ loadOut'.found) =>
          \/ persisted.has /\ loadOut' = CompleteLoad(persisted.metrics)
          \/ writer.active /\ loadOut' = CompleteLoad(writer.metrics)]_vars

\* The same when no save() is in progress while load() reads.
C35_LoadAfterCompletedSave ==
    [][(writer'.loads # writer.loads /\ ~writer.active /\ persisted.has) =>
          loadOut' = CompleteLoad(persisted.metrics)]_vars

\* continuousMode is in or at its loop and the flag is cleared.
Cancelled ==
    /\ LoopEntered
    /\ ~g_continueMonitoring
    /\ run.pc \in {"loopTest", "collect", "emit", "update", "sleep"}
\* continuousMode has saved the state, released the collectors and returned 0.
ReturnedZero ==
    /\ run.pc = "done"
    /\ run.exitCode = 0
    /\ Count(hist.trace, "save") = 1
    /\ Last(hist.trace) = "release"
    /\ ~cpu.initialized
    /\ ~disk.initialized
    /\ \A h \in 1..Len(pdh) : ~pdh[h].open
\* With the flag cleared no iteration and no sleep begin, and the flag stays
\* cleared.
NothingNewOnceCancelled ==
    [][(run.options.continuous /\ ~g_continueMonitoring) =>
          /\ ~g_continueMonitoring'
          /\ ~(run.pc = "loopTest" /\ run'.pc = "collect")
          /\ run'.pc = "sleep" => run.pc = "sleep"]_vars

\* C36: in continuous mode, once the cancellation flag is set (and every
\* call the thread makes comes back), the flag is never reset, no new
\* iteration starts after the one in flight, no sleep begins (at most the
\* one in flight still elapses), and continuousMode eventually saves the
\* state, releases the collectors and returns 0.
C36_CancellationEnds ==
    /\ NothingNewOnceCancelled
    /\ Cancelled ~> ReturnedZero

\* The same, but for the run in which the clock raises in the iteration in
\* flight.
C36_CancellationEndsUnlessRaised ==
    /\ NothingNewOnceCancelled
    /\ Cancelled ~> (ReturnedZero \/ (run.pc = "done" /\ Last(hist.trace) = "collect failed"))

\* C37: the cumulative totalBytesRead and totalBytesWritten of a disk never
\* decrease from one produced snapshot to the next, the previous snapshot
\* being the one the iteration before produced or the one the state file
\* handed over from the run before, for a disk that both report.
C37_DiskTotalsMonotonic ==
    \A k \in 1..Len(hist.collected) :
        LET e == hist.collected[k]
        IN  (e.metrics.disks.has /\ e.previous.metrics.disks.has) =>
                \A i \in 1..Len(e.metrics.disks.val) :
                    LET d == e.metrics.disks.val[i]
                        j == FindByDeviceName(e.previous.metrics.disks.val, d.deviceName)
                    IN  j # 0 =>
                           /\ d.totalBytesRead >= e.previous.metrics.disks.val[j].totalBytesRead
                           /\ d.totalBytesWritten >= e.previous.metrics.disks.val[j].totalBytesWritten

\* The same for the cycles with a positive elapsed time whose sums stay
\* below 2^WordBits.
C37_MonotonicWhileTimePasses ==
    \A k \in 1..Len(hist.collected) :
        LET e == hist.collected[k]
        IN  (e.metrics.disks.has /\ e.previous.metrics.disks.has /\ RatIsPositive(e.elapsedSeconds)) =>
                \A i \in 1..Len(e.metrics.disks.val) :
                    LET d == e.metrics.disks.val[i]
                        j == FindByDeviceName(e.previous.metrics.disks.val, d.deviceName)
                        p == e.previous.metrics.disks.val[j]
                        grownRead == p.totalBytesRead
                            + CastU64(RatTimes(ToDouble(d.bytesReadPerSec), e.elapsedSeconds), 0)
                        grownWritten == p.totalBytesWritten
                            + CastU64(RatTimes(ToDouble(d.bytesWrittenPerSec), e.elapsedSeconds), 0)
                    IN  (j # 0 /\ grownRead < U64 /\ grownWritten < U64) =>
                           /\ d.totalBytesRead >= p.totalBytesRead
                           /\ d.totalBytesWritten >= p.totalBytesWritten

\* C38: whenever load() returns found = false its two outputs are as the
\* caller handed them in: the metrics structure has gained no network and
\* no disk entry and the timestamp variable holds its prior value.
C38_MissLeavesOutputs ==
    (stCall = "load" /\ ~loadOut.found) =>
        /\ loadOut.metrics = loadIn.metrics
        /\ loadOut.timestamp = loadIn.timestamp

\* C38 witness: load() was handed a structure with an interface and the
\* timestamp 9, opened a file whose VERSION line is good and whose TIMESTAMP
\* line is not a number, and returned false with both as they were.
C38_Witness ==
    /\ stCall = "load"
    /\ loadIn.canOpen
    /\ loadIn.timestamp = 9
    /\ loadIn.metrics.network.has
    /\ file = FileOfLines(<<GoodFirstLine, TimestampKey \o <<"x">>>>)
    /\ ~loadOut.found
    /\ loadOut.timestamp = 9
    /\ loadOut.metrics = loadIn.metrics

====
